---- MODULE Spec2Model ----
(***************************************************************************)
(* Model of the orchestration core of music-cli: the ShuffleManager        *)
(* (modules/playback/shuffle_manager.rs), the AppState reducer             *)
(* (application/state.rs), the event loop (application/app.rs) and the     *)
(* three domain handlers (application/handlers/*.rs).                      *)
(*                                                                         *)
(* Conventions: Option<usize> is an integer with None for Option::None;    *)
(* a Song is a positive integer (its identity), NoSong stands for          *)
(* Option::<Song>::None; vectors are sequences, read with the 0-based      *)
(* helper Get.                                                             *)
(***************************************************************************)
EXTENDS Integers, Sequences, FiniteSets, TLC

\* ------------------------------------------------------------------------
\* Bounds of the model
\* ------------------------------------------------------------------------
\* largest playlist size handed to the ShuffleManager operations
MaxSize == 3
\* number of songs of the library loaded from storage
LibSize == 3
\* number of events that enter the channel from outside the worker (keys
\* polled, scan results) in one run of the loop
MaxInputs == 3

\* ------------------------------------------------------------------------
\* Option values and 0-based vector access
\* ------------------------------------------------------------------------
None == -1
NoSong == 0

\* Vec::get(i).copied(): None when out of range
Get(q, i) == IF i >= 0 /\ i < Len(q) THEN q[i + 1] ELSE None

\* Vec::last().copied()
LastOf(q) == IF Len(q) = 0 THEN None ELSE q[Len(q)]

\* Vec::swap(i, j), 0-based
Swap(q, i, j) ==
    [k \in 1..Len(q) |-> IF k = i + 1 THEN q[j + 1]
                         ELSE IF k = j + 1 THEN q[i + 1]
                         ELSE q[k]]

Range(q) == {q[k] : k \in 1..Len(q)}

NoDup(q) == \A i, j \in 1..Len(q) : q[i] = q[j] => i = j

\* q is a permutation of 0..n-1
IsPermutation(q, n) == Len(q) = n /\ Range(q) = 0..(n - 1)

\* ------------------------------------------------------------------------
\* ShuffleManager (modules/playback/shuffle_manager.rs)
\* ------------------------------------------------------------------------
\* ShuffleManager::new
NewManager ==
    [enabled |-> FALSE, shuffle_queue |-> <<>>, queue_position |-> 0,
     playlist_size |-> 0]

\* Mutation of shuffled: a shuffle that may repeat an index.
shuffled_with_repeats(n) == [1..n -> 0..(n - 1)]

\* (0..playlist_size).collect() followed by indices.shuffle(&mut rng): every
\* ordering of 0..n-1 is a possible outcome.
shuffled(n) == {q \in [1..n -> 0..(n - 1)] : NoDup(q)}

\* Mutation of force_first_swap: the shuffled order is kept as it fell.
force_first_swap_skipped(indices, force_first) == indices

\* the force_first swap of generate_shuffle_queue
force_first_swap(indices, force_first) ==
    IF force_first /= None /\ force_first \in Range(indices)
    THEN LET pos == CHOOSE k \in 1..Len(indices) : indices[k] = force_first
         IN  Swap(indices, 0, pos - 1)
    ELSE indices

\* generate_shuffle_queue: the set of managers it may leave behind
generate_shuffle_queue(m, force_first) ==
    IF m.playlist_size = 0
    THEN {[m EXCEPT !.shuffle_queue = <<>>]}
    ELSE {[m EXCEPT !.shuffle_queue = force_first_swap(ind, force_first),
                    !.queue_position = 0] : ind \in shuffled(m.playlist_size)}

\* set_enabled
set_enabled(m, enabled) ==
    IF m.enabled = enabled THEN m
    ELSE IF ~enabled
         THEN [m EXCEPT !.enabled = FALSE, !.shuffle_queue = <<>>,
                        !.queue_position = 0]
         ELSE [m EXCEPT !.enabled = TRUE]

\* toggle
toggle(m) == set_enabled(m, ~m.enabled)

\* initialize
initialize(m, playlist_size, current_index) ==
    LET m1 == [m EXCEPT !.playlist_size = playlist_size]
    IN  IF m.enabled /\ playlist_size > 0
        THEN generate_shuffle_queue(m1, current_index)
        ELSE {m1}

\* Mutation of anti_repeat: the edge-case fix is left out.
anti_repeat_skipped(m, last_played) == m

\* the anti-repeat swap of next_index, applied to the regenerated queue
anti_repeat(m, last_played) ==
    IF m.playlist_size > 1 /\ last_played /= None /\ Len(m.shuffle_queue) > 0
       /\ last_played = m.shuffle_queue[1]
    THEN [m EXCEPT !.shuffle_queue =
                      Swap(m.shuffle_queue, 0, Len(m.shuffle_queue) - 1)]
    ELSE m

\* next_index, enabled, queue already present: the outcomes [m, ret]
next_index_advance(m, loop_playlist) ==
    LET next_pos == m.queue_position + 1
    IN  IF next_pos >= Len(m.shuffle_queue)
        THEN IF ~loop_playlist
             THEN {[m |-> m, ret |-> None]}
             ELSE LET last_played == LastOf(m.shuffle_queue)
                  IN  {LET m3 == [anti_repeat(m2, last_played)
                                    EXCEPT !.queue_position = 0]
                       IN  [m |-> m3,
                            ret |-> Get(m3.shuffle_queue, m3.queue_position)]
                       : m2 \in generate_shuffle_queue(m, None)}
        ELSE LET m1 == [m EXCEPT !.queue_position = next_pos]
             IN  {[m |-> m1, ret |-> Get(m1.shuffle_queue, next_pos)]}

\* next_index: the set of outcomes [m |-> manager afterwards, ret |-> result]
next_index(m, current_index, loop_playlist) ==
    IF ~m.enabled
    THEN {[m |-> m,
           ret |-> IF current_index = None THEN None
                   ELSE IF current_index + 1 < m.playlist_size
                        THEN current_index + 1
                        ELSE IF loop_playlist THEN 0 ELSE None]}
    ELSE UNION {next_index_advance(m1, loop_playlist) :
                  m1 \in (IF Len(m.shuffle_queue) = 0
                          THEN generate_shuffle_queue(m, current_index)
                          ELSE {m})}

\* Mutation of previous_index: the enabled manager hands out the entry it
\* stands on and does not step back.
previous_index_stays(m, current_index) ==
    [m |-> m,
     ret |-> IF ~m.enabled
             THEN IF current_index /= None /\ current_index > 0
                  THEN current_index - 1 ELSE None
             ELSE Get(m.shuffle_queue, m.queue_position)]

\* previous_index: the outcome [m, ret]
previous_index(m, current_index) ==
    IF ~m.enabled
    THEN [m |-> m,
          ret |-> IF current_index /= None /\ current_index > 0
                  THEN current_index - 1 ELSE None]
    ELSE IF m.queue_position > 0
         THEN [m |-> [m EXCEPT !.queue_position = m.queue_position - 1],
               ret |-> Get(m.shuffle_queue, m.queue_position - 1)]
         ELSE [m |-> m, ret |-> None]

\* update_playlist_size
update_playlist_size(m, new_size) ==
    IF m.playlist_size /= new_size
    THEN LET m1 == [m EXCEPT !.playlist_size = new_size]
         IN  IF m.enabled THEN generate_shuffle_queue(m1, None) ELSE {m1}
    ELSE {m}

\* remaining_in_pass (saturating_sub)
remaining_in_pass(m) ==
    IF Len(m.shuffle_queue) = 0 THEN 0
    ELSE IF Len(m.shuffle_queue) > m.queue_position + 1
         THEN Len(m.shuffle_queue) - (m.queue_position + 1)
         ELSE 0

\* ------------------------------------------------------------------------
\* Events (core/events.rs).  An event is a record: t names the variant, a is
\* its scalar payload (song, index, flag as 0/1, volume, mode or path), l its
\* vector payload (songs or search results), m its message.
\* ------------------------------------------------------------------------
Ev(t, a) == [t |-> t, a |-> a, l |-> <<>>, m |-> ""]
EvList(t, l) == [t |-> t, a |-> 0, l |-> l, m |-> ""]
EvMsg(t, m, a) == [t |-> t, a |-> a, l |-> <<>>, m |-> m]
NoEvent == Ev("", 0)

PlaybackEvents ==
    {"PlayRequested", "Started", "Paused", "Resumed", "TrackFinished",
     "Stopped", "Error", "VolumeChanged", "Shuffle", "RepeatChanged"}
LibraryEvents ==
    {"ScanRequested", "ScanStarted", "ScanProgress", "ScanCompleted",
     "LibraryLoaded", "SearchRequested", "SearchResults"}
UiEvents ==
    {"PlaySelectedRequested", "TogglePauseRequested", "NextTrackRequested",
     "PreviousTrackRequested", "SelectionChanged", "QuitRequested",
     "ShowMessage", "ShowError", "VolumeChangeRequested",
     "PathChangeRequested", "SearchToggled", "SearchQueryChanged",
     "ShuffleToggled", "ShuffleSet", "RepeatChangeRequested"}

\* the variant of AppEvent an event belongs to
Family(e) ==
    IF e.t \in PlaybackEvents THEN "Playback"
    ELSE IF e.t \in LibraryEvents THEN "Library"
    ELSE IF e.t \in UiEvents THEN "Ui"
    ELSE "Shutdown"

\* RepeatMode, carried in events by its position in this list
RepeatModes == <<"Off", "All", "One">>

BoolOf(a) == a = 1
FlagOf(b) == IF b THEN 1 ELSE 0

\* ------------------------------------------------------------------------
\* AppState (application/state.rs)
\* ------------------------------------------------------------------------
\* f32 amplitudes are kept as amplitude * 100^4
FullVolume == 100 * 100 * 100 * 100

\* utils::volume_percent_to_amplitude: (percent / 100)^4
volume_percent_to_amplitude(percent) == percent * percent * percent * percent

Msg(kind, arg) == <<kind, arg>>

\* AppState::default.  current_elapsed is the position shown by the progress
\* bar: run() refreshes it from the backend and only the renderer reads it,
\* so the application model leaves it where it was loaded.
DefaultState ==
    [root_path |-> 0, volume |-> FullVolume, shuffle |-> FALSE,
     repeat |-> "Off",
     songs |-> <<>>, is_scanning |-> FALSE,
     current_song |-> NoSong, is_playing |-> FALSE, is_paused |-> FALSE,
     pb_volume |-> FullVolume, current_index |-> None,
     current_elapsed |-> 0,
     selected_index |-> None, status_message |-> Msg("Welcome", 0),
     error_message |-> Msg("", 0),
     search_active |-> FALSE, search_query |-> 0, search_results |-> <<>>]

\* songs.get(i).cloned()
SongAt(songs, i) == IF i >= 0 /\ i < Len(songs) THEN songs[i + 1] ELSE NoSong

\* Mutation of started_index: Started keeps the index recorded before.
started_index_kept(s) == s.current_index

\* the index Started records as playback.current_index
started_index(s) == s.selected_index

\* Mutation of track_finished: the finished song is forgotten as well.
track_finished_clears_song(s) ==
    [s EXCEPT !.is_playing = FALSE, !.current_song = NoSong,
              !.current_index = None]

\* apply_event, PlaybackEvent::TrackFinished
track_finished(s) == [s EXCEPT !.is_playing = FALSE]

\* Mutation of show_message: the message is added to the one displayed.
show_message_appends(s, e) ==
    [s EXCEPT !.status_message = s.status_message \o Msg(e.m, e.a),
              !.error_message = Msg("", 0)]

\* apply_event, UiEvent::ShowMessage
show_message(s, e) ==
    [s EXCEPT !.status_message = Msg(e.m, e.a),
              !.error_message = Msg("", 0)]

\* Mutation of search_cleared_selection: the selection stays where the
\* search left it.
search_cleared_selection_kept(s) == s.selected_index

\* apply_event, SearchToggled{active: false}: where the selection goes
search_cleared_selection(s) ==
    IF s.current_index /= None THEN s.current_index
    ELSE IF s.selected_index /= None THEN s.selected_index
         ELSE IF Len(s.songs) > 0 THEN 0 ELSE None

\* Mutation of ignored: an event without a reducer arm shows up in the
\* status line.
ignored_shows(s, e) == [s EXCEPT !.status_message = Msg(e.t, 0)]

\* apply_event, the `_ => {}` arms and AppEvent::Shutdown
ignored(s, e) == s

\* AppState::apply_event
apply_event(s, e) ==
    CASE e.t = "Started" ->
           [s EXCEPT !.current_song = e.a, !.is_playing = TRUE,
                     !.is_paused = FALSE,
                     !.current_index = started_index(s),
                     !.status_message = Msg("Playing", e.a),
                     !.error_message = Msg("", 0)]
      [] e.t = "Paused" ->
           [s EXCEPT !.is_paused = TRUE, !.status_message = Msg("Paused", 0)]
      [] e.t = "Resumed" ->
           [s EXCEPT !.is_paused = FALSE,
                     !.status_message =
                        IF s.current_song /= NoSong
                        THEN Msg("Playing", s.current_song)
                        ELSE s.status_message]
      [] e.t = "Stopped" ->
           [s EXCEPT !.is_playing = FALSE, !.is_paused = FALSE,
                     !.current_song = NoSong,
                     !.status_message = Msg("Stopped", 0)]
      [] e.t = "TrackFinished" -> track_finished(s)
      [] e.t = "VolumeChanged" ->
           [s EXCEPT !.pb_volume = e.a, !.volume = e.a]
      [] e.t = "Error" -> [s EXCEPT !.error_message = Msg(e.m, e.a)]
      [] e.t = "Shuffle" -> [s EXCEPT !.shuffle = BoolOf(e.a)]
      [] e.t = "RepeatChanged" -> [s EXCEPT !.repeat = RepeatModes[e.a]]
      [] e.t = "ScanStarted" ->
           [s EXCEPT !.is_scanning = TRUE,
                     !.status_message = Msg("Scanning", e.a),
                     !.error_message = Msg("", 0)]
      [] e.t = "ScanProgress" ->
           [s EXCEPT !.status_message = Msg("Scanning found", e.a)]
      [] e.t = "ScanCompleted" ->
           [s EXCEPT !.songs = e.l, !.is_scanning = FALSE,
                     !.status_message = Msg("Found songs", e.a),
                     !.selected_index =
                        IF s.selected_index = None /\ Len(e.l) > 0
                        THEN 0 ELSE s.selected_index]
      [] e.t = "LibraryLoaded" ->
           [s EXCEPT !.songs = e.l,
                     !.selected_index =
                        IF s.selected_index = None /\ Len(e.l) > 0
                        THEN 0 ELSE s.selected_index]
      [] e.t = "SearchResults" ->
           [s EXCEPT !.search_results = e.l,
                     !.status_message =
                        IF Len(e.l) = 0 THEN Msg("No results found", 0)
                        ELSE Msg("Found matches", Len(e.l)),
                     !.selected_index =
                        IF Len(e.l) = 0 THEN s.selected_index ELSE e.l[1]]
      [] e.t = "SelectionChanged" -> [s EXCEPT !.selected_index = e.a]
      [] e.t = "ShowMessage" -> show_message(s, e)
      [] e.t = "ShowError" -> [s EXCEPT !.error_message = Msg(e.m, e.a)]
      [] e.t = "SearchToggled" ->
           IF ~BoolOf(e.a)
           THEN [s EXCEPT !.search_active = FALSE, !.search_query = 0,
                          !.search_results = <<>>,
                          !.status_message = Msg("Search cleared", 0),
                          !.selected_index = search_cleared_selection(s)]
           ELSE [s EXCEPT !.search_active = TRUE,
                          !.status_message = Msg("Search mode active", 0)]
      [] e.t = "SearchQueryChanged" -> [s EXCEPT !.search_query = e.a]
      [] OTHER -> ignored(s, e)

\* ------------------------------------------------------------------------
\* Backends
\* ------------------------------------------------------------------------
\* RodioBackend::new: nothing loaded, sink empty
NewBackend ==
    [current_song |-> NoSong, is_paused |-> FALSE, sink_empty |-> TRUE,
     volume |-> FullVolume]

\* Mutation of play: the sink plays but current_song is not recorded.
play_without_song(b, song) ==
    [b EXCEPT !.is_paused = FALSE, !.sink_empty = FALSE]

\* RodioBackend::play (the file opens and decodes)
play(b, song) ==
    [b EXCEPT !.current_song = song, !.is_paused = FALSE,
              !.sink_empty = FALSE]

\* RodioBackend::pause
pause(b) ==
    IF b.current_song /= NoSong /\ ~b.is_paused
    THEN [b EXCEPT !.is_paused = TRUE] ELSE b

\* Mutation of resume: the backend stays paused.
resume_stays_paused(b) == b

\* RodioBackend::resume
resume(b) ==
    IF b.current_song /= NoSong /\ b.is_paused
    THEN [b EXCEPT !.is_paused = FALSE] ELSE b

\* RodioBackend::is_playing
is_playing(b) == b.current_song /= NoSong /\ ~b.sink_empty

\* Mutation of has_finished: the sink is not asked whether it is empty.
has_finished_ignores_sink(b) == b.current_song /= NoSong

\* RodioBackend::has_finished
has_finished(b) == b.current_song /= NoSong /\ b.sink_empty

\* what JsonStorageBackend::save writes: the fields serde does not skip
Persisted(s) ==
    [root_path |-> s.root_path, volume |-> s.volume, shuffle |-> s.shuffle,
     repeat |-> s.repeat, songs |-> s.songs, pb_volume |-> s.pb_volume]

\* nothing saved yet
NoDisk == Persisted(DefaultState)

\* Mutation of load: the file is taken for unreadable and the defaults are
\* returned.
load_ignores_file(d) == DefaultState

\* JsonStorageBackend::load of a file written by save under the same schema:
\* serde fills config, library.songs and playback.volume from the file,
\* the #[serde(skip)] fields from Default::default() and ui from
\* UiState::default()
load(d) ==
    [root_path |-> d.root_path, volume |-> d.volume, shuffle |-> d.shuffle,
     repeat |-> d.repeat,
     songs |-> d.songs, is_scanning |-> FALSE,
     current_song |-> NoSong, is_playing |-> FALSE, is_paused |-> FALSE,
     pb_volume |-> d.pb_volume, current_index |-> None,
     current_elapsed |-> 0,
     selected_index |-> None, status_message |-> Msg("", 0),
     error_message |-> Msg("", 0),
     search_active |-> FALSE, search_query |-> 0, search_results |-> <<>>]

\* ------------------------------------------------------------------------
\* Navigation helpers (application/handlers/mod.rs)
\* ------------------------------------------------------------------------
Go(idx) == [kind |-> "Go", idx |-> idx]
Restart == [kind |-> "Restart", idx |-> None]
Nothing == [kind |-> "Nothing", idx |-> None]

\* What a piece of code does to the shared resources, in program order:
\* "lock" and "unlock" of the AppState mutex, "send" on the event channel,
\* "backend" for a call into the playback backend, "save" for
\* StorageBackend::save.
\* a scope that holds the MutexGuard of state.lock() around ops
Locked(ops) == <<"lock">> \o ops \o <<"unlock">>

\* Mutation of execute_nav: PlayRequested is sent before the guard is dropped.
execute_nav_sends_locked(s, target, current_index) ==
    LET play_index == IF target.kind = "Go" THEN target.idx
                      ELSE IF target.kind = "Restart" THEN current_index
                      ELSE None
    IN  IF play_index /= None
        THEN LET song == SongAt(s.songs, play_index)
             IN  [state |-> [s EXCEPT !.selected_index = play_index],
                  emit |-> IF song /= NoSong
                           THEN <<Ev("PlayRequested", song)>> ELSE <<>>,
                  steps |-> Locked(IF song /= NoSong
                                   THEN <<"send">> ELSE <<>>)]
        ELSE [state |-> s, emit |-> <<>>, steps |-> <<>>]

\* Mutation of execute_nav: the target is handed on as a new navigation
\* request.
execute_nav_asks_again(s, target, current_index) ==
    LET play_index == IF target.kind = "Go" THEN target.idx
                      ELSE IF target.kind = "Restart" THEN current_index
                      ELSE None
    IN  IF play_index /= None
        THEN [state |-> [s EXCEPT !.selected_index = play_index],
              emit |-> <<Ev("NextTrackRequested", 0)>>,
              steps |-> Locked(<<>>) \o <<"send">>]
        ELSE [state |-> s, emit |-> <<>>, steps |-> <<>>]

\* Mutation of execute_nav: ui.selected_index is not moved to the target.
execute_nav_keeps_selection(s, target, current_index) ==
    LET play_index == IF target.kind = "Go" THEN target.idx
                      ELSE IF target.kind = "Restart" THEN current_index
                      ELSE None
    IN  IF play_index /= None
        THEN LET song == SongAt(s.songs, play_index)
             IN  [state |-> s,
                  emit |-> IF song /= NoSong
                           THEN <<Ev("PlayRequested", song)>> ELSE <<>>,
                  steps |-> Locked(<<>>) \o
                            (IF song /= NoSong THEN <<"send">> ELSE <<>>)]
        ELSE [state |-> s, emit |-> <<>>, steps |-> <<>>]

\* execute_nav: the state it leaves, the events it sends and its steps
execute_nav(s, target, current_index) ==
    LET play_index == IF target.kind = "Go" THEN target.idx
                      ELSE IF target.kind = "Restart" THEN current_index
                      ELSE None
    IN  IF play_index /= None
        THEN LET song == SongAt(s.songs, play_index)
             IN  [state |-> [s EXCEPT !.selected_index = play_index],
                  emit |-> IF song /= NoSong
                           THEN <<Ev("PlayRequested", song)>> ELSE <<>>,
                  steps |-> Locked(<<>>) \o
                            (IF song /= NoSong THEN <<"send">> ELSE <<>>)]
        ELSE [state |-> s, emit |-> <<>>, steps |-> <<>>]

\* Mutation of sequential_next: the end of the list never wraps.
sequential_next_no_wrap(current_index, library_len, loop_playlist) ==
    IF current_index = None THEN Nothing
    ELSE IF current_index + 1 < library_len THEN Go(current_index + 1)
         ELSE Restart

\* Mutation of sequential_next: without a current index the list starts over.
sequential_next_from_start(current_index, library_len, loop_playlist) ==
    IF current_index = None THEN Go(0)
    ELSE IF current_index + 1 < library_len THEN Go(current_index + 1)
         ELSE IF loop_playlist THEN Go(0) ELSE Restart

\* advance_to_next, shuffle off
sequential_next(current_index, library_len, loop_playlist) ==
    IF current_index = None THEN Nothing
    ELSE IF current_index + 1 < library_len THEN Go(current_index + 1)
         ELSE IF loop_playlist THEN Go(0) ELSE Restart

\* Mutation of sequential_prev: index 0 never wraps.
sequential_prev_no_wrap(current_index, library_len, loop_playlist) ==
    IF current_index = None THEN Nothing
    ELSE IF current_index = 0 THEN Restart
         ELSE Go(current_index - 1)

\* advance_to_prev, shuffle off
sequential_prev(current_index, library_len, loop_playlist) ==
    IF current_index = None THEN Nothing
    ELSE IF current_index = 0
         THEN IF loop_playlist
              THEN Go(IF library_len > 0 THEN library_len - 1 ELSE 0)
              ELSE Restart
         ELSE Go(current_index - 1)

\* one outcome of a navigation helper
NavOutcome(s, m, target, current_index) ==
    LET r == execute_nav(s, target, current_index)
    IN  [state |-> r.state, sm |-> m, emit |-> r.emit, steps |-> r.steps,
         target |-> target.kind]

\* advance_to_next: the set of outcomes [state, sm, emit]
advance_to_next(s, m, current_index, library_len, loop_playlist) ==
    IF m.enabled
    THEN {NavOutcome(s, o.m, IF o.ret /= None THEN Go(o.ret) ELSE Restart,
                     current_index) :
            o \in UNION {next_index(m1, current_index, loop_playlist) :
                           m1 \in (IF remaining_in_pass(m) = 0
                                   THEN initialize(m, library_len,
                                                   current_index)
                                   ELSE {m})}}
    ELSE {NavOutcome(s, m,
                     sequential_next(current_index, library_len,
                                     loop_playlist),
                     current_index)}

\* advance_to_prev: the set of outcomes [state, sm, emit]
advance_to_prev(s, m, current_index, library_len, loop_playlist) ==
    IF m.enabled
    THEN LET o == previous_index(m, current_index)
         IN  {NavOutcome(s, o.m,
                         IF o.ret /= None THEN Go(o.ret) ELSE Restart,
                         current_index)}
    ELSE {NavOutcome(s, m,
                     sequential_prev(current_index, library_len,
                                     loop_playlist),
                     current_index)}

\* ------------------------------------------------------------------------
\* Handlers.  Each yields the set of outcomes
\* [state, sm, backend, emit, saves, steps, err, nav]: saves lists the
\* snapshots handed to StorageBackend::save, in order; steps lists what the
\* handler did to the shared resources; err says that it returned Err; nav is
\* the NavTarget a navigation helper resolved to ("" when none was called).
\* ------------------------------------------------------------------------
Outcome(s, m, b, emit, saves, steps) ==
    [state |-> s, sm |-> m, backend |-> b, emit |-> emit, saves |-> saves,
     steps |-> steps, err |-> FALSE, nav |-> ""]

\* Mutation of Failed: the error of play is swallowed.
Failed_swallowed(o) == o

\* the handler returned through `?` with an error
Failed(o) == [o EXCEPT !.err = TRUE]

\* the handler ended with a navigation helper whose outcome is n
Navigated(n, b, steps) ==
    [Outcome(n.state, n.sm, b, n.emit, <<>>, steps \o n.steps)
       EXCEPT !.nav = n.target]

\* Mutation of persist_state: nothing is written.
persist_state_skipped(s) == <<>>

\* persist_state: the snapshots it hands to StorageBackend::save
persist_state(s) == <<Persisted(s)>>

\* persist_state: the guard is held while save runs
persist_steps == Locked(<<"save">>)

\* RodioBackend::play when the file cannot be opened or decoded: the sink was
\* stopped before the attempt
play_failed(b) == [b EXCEPT !.sink_empty = TRUE]

\* TrackFinished under RepeatMode::One: the song it replays
repeat_one_song(s) ==
    IF s.current_index /= None THEN SongAt(s.songs, s.current_index)
    ELSE NoSong

\* PlaybackHandler::handle
PlaybackHandler(e, s, m, b) ==
    CASE e.t = "PlayRequested" ->
           {Outcome(s, m, play(b, e.a), <<Ev("Started", e.a)>>, <<>>,
                    <<"backend", "send">>),
            Failed(Outcome(s, m, play_failed(b), <<>>, <<>>, <<"backend">>))}
      [] e.t = "TrackFinished" ->
           IF s.repeat = "One"
           THEN {Outcome(s, m, b,
                         IF repeat_one_song(s) /= NoSong
                         THEN <<Ev("PlayRequested", repeat_one_song(s))>>
                         ELSE <<>>,
                         <<>>,
                         Locked(<<>>) \o
                         (IF s.current_index /= None
                          THEN Locked(<<>>) \o
                               (IF repeat_one_song(s) /= NoSong
                                THEN <<"send">> ELSE <<>>)
                          ELSE <<>>))}
           ELSE {Navigated(n, b, Locked(<<>>)) :
                   n \in advance_to_next(s, m, s.current_index, Len(s.songs),
                                         s.repeat = "All")}
      [] e.t = "VolumeChanged" ->
           {Outcome(s, m, [b EXCEPT !.volume = e.a], <<>>, persist_state(s),
                    <<"backend">> \o persist_steps)}
      [] e.t \in {"Shuffle", "RepeatChanged"} ->
           {Outcome(s, m, b, <<>>, persist_state(s), persist_steps)}
      [] OTHER -> {Outcome(s, m, b, <<>>, <<>>, <<>>)}

\* SearchEngine (modules/library/search_engine.rs).  The fuzzy matcher is a
\* collaborator: what score_song returns for the songs of a library and one
\* query is a table of Option<i64>, one entry per song, None for no match.
\* the scores the matcher hands out
MaxScore == 3
ScoreTables(n) == [1..n -> {None} \cup (1..MaxScore)]

\* the tables of a matcher that accepts one song at most
OneMatchTables(n) ==
    {sc \in [1..n -> {None, 1}] :
       Cardinality({k \in 1..n : sc[k] /= None}) <= 1}

\* search: the filter_map over library.iter().enumerate()
matches(library, sc) ==
    LET hit(k) == [index |-> k - 1, song |-> library[k], score |-> sc[k]]
    IN  SelectSeq([k \in 1..Len(library) |-> hit(k)],
                  LAMBDA r : r.score /= None)

\* Vec::sort_by's place for r in the sorted rs: behind every element that
\* does not compare greater (the sort is stable)
RECURSIVE insert_by_score(_, _)
insert_by_score(rs, r) ==
    IF rs = <<>> THEN <<r>>
    ELSE IF Head(rs).score >= r.score
         THEN <<Head(rs)>> \o insert_by_score(Tail(rs), r)
         ELSE <<r>> \o rs

\* Mutation of sort_by_score: the matches stay in library order.
sort_by_score_skipped(rs) == rs

\* results.sort_by(|a, b| b.score.cmp(&a.score))
RECURSIVE sort_by_score(_)
sort_by_score(rs) ==
    IF rs = <<>> THEN <<>>
    ELSE insert_by_score(sort_by_score(SubSeq(rs, 1, Len(rs) - 1)),
                         rs[Len(rs)])

\* SearchEngine::search with the matcher answering sc (query 0 is "")
search(library, query, sc) ==
    IF query = 0 THEN <<>> ELSE sort_by_score(matches(library, sc))

\* SearchEngine::search_result_to_song_index (a pair is kept as its index)
search_result_to_song_index(search_results) ==
    [k \in 1..Len(search_results) |-> search_results[k].index]

\* Mutation of library_changed: the manager is not told about the new library.
library_changed_skipped(m, len) == {m}

\* the shuffle manager after a library change (ScanCompleted, LibraryLoaded)
library_changed(m, len) ==
    UNION {IF m1.enabled THEN initialize(m1, len, None) ELSE {m1} :
             m1 \in update_playlist_size(m, len)}

\* LibraryHandler::handle
LibraryHandler(e, s, m, b) ==
    CASE e.t = "ScanCompleted" ->
           {Outcome(s, m2, b, <<>>, persist_state(s), persist_steps) :
              m2 \in library_changed(m, Len(e.l))}
      [] e.t = "LibraryLoaded" ->
           {Outcome(s, m2, b, <<>>, <<>>, <<>>) :
              m2 \in library_changed(m, Len(e.l))}
      [] e.t = "SearchRequested" ->
           {Outcome(s, m, b, <<EvList("SearchResults", r)>>, <<>>,
                    Locked(<<>>) \o <<"send">>) :
              r \in {search_result_to_song_index(search(s.songs, e.a, sc)) :
                       sc \in OneMatchTables(Len(s.songs))}}
      [] OTHER -> {Outcome(s, m, b, <<>>, <<>>, <<>>)}

\* Path::is_dir for the paths of the model: path 1 is a directory
is_dir(path) == path = 1

\* Mutation of apply_shuffle: the handler writes config.shuffle itself.
apply_shuffle_writes_config(s, m, b, enabled) ==
    LET m1 == set_enabled(m, enabled)
    IN  {Outcome([s EXCEPT !.shuffle = enabled], m2, b,
                 <<Ev("Shuffle", FlagOf(enabled))>>, <<>>,
                 (IF enabled THEN Locked(<<>>) ELSE <<>>) \o <<"send">>) :
           m2 \in (IF enabled
                   THEN initialize(m1, Len(s.songs), s.selected_index)
                   ELSE {m1})}

\* UiHandler::apply_shuffle
apply_shuffle(s, m, b, enabled) ==
    LET m1 == set_enabled(m, enabled)
    IN  {Outcome(s, m2, b, <<Ev("Shuffle", FlagOf(enabled))>>, <<>>,
                 (IF enabled THEN Locked(<<>>) ELSE <<>>) \o <<"send">>) :
           m2 \in (IF enabled
                   THEN initialize(m1, Len(s.songs), s.selected_index)
                   ELSE {m1})}

\* Mutation of path_change: the path is stored without the is_dir check.
path_change_unchecked(s, m, b, path) ==
    LET s1 == [s EXCEPT !.root_path = path]
    IN  {Outcome(s1, m, b,
                 <<EvMsg("ShowMessage", "Music path updated", 0)>>,
                 persist_state(s1),
                 Locked(<<>>) \o persist_steps \o <<"send">>)}

\* UiHandler::handle, PathChangeRequested
path_change(s, m, b, path) ==
    IF ~is_dir(path)
    THEN {Outcome(s, m, b,
                  <<EvMsg("ShowError", "Invalid directory path", 0)>>,
                  <<>>, <<"send">>)}
    ELSE LET s1 == [s EXCEPT !.root_path = path]
         IN  {Outcome(s1, m, b,
                      <<EvMsg("ShowMessage", "Music path updated", 0)>>,
                      persist_state(s1),
                      Locked(<<>>) \o persist_steps \o <<"send">>)}

\* UiHandler::handle
UiHandler(e, s, m, b) ==
    CASE e.t = "PlaySelectedRequested" ->
           LET song == IF s.selected_index /= None
                       THEN SongAt(s.songs, s.selected_index) ELSE NoSong
           IN  {Outcome(s, m, b,
                        IF song /= NoSong
                        THEN <<Ev("PlayRequested", song)>> ELSE <<>>,
                        <<>>,
                        Locked(<<>>) \o
                        (IF song /= NoSong THEN <<"send">> ELSE <<>>))}
      [] e.t = "TogglePauseRequested" ->
           IF b.is_paused
           THEN {Outcome(s, m, resume(b), <<Ev("Resumed", 0)>>, <<>>,
                         <<"backend", "backend", "send">>)}
           ELSE IF is_playing(b)
                THEN {Outcome(s, m, pause(b), <<Ev("Paused", 0)>>, <<>>,
                              <<"backend", "backend", "backend", "send">>)}
                ELSE {Outcome(s, m, b, <<>>, <<>>, <<"backend", "backend">>)}
      [] e.t = "NextTrackRequested" ->
           {Navigated(n, b, Locked(<<>>)) :
              n \in UNION {advance_to_next(s, m1, s.selected_index,
                                           Len(s.songs), s.repeat = "All") :
                             m1 \in (IF m.enabled /\ remaining_in_pass(m) = 0
                                     THEN initialize(m, Len(s.songs),
                                                     s.selected_index)
                                     ELSE {m})}}
      [] e.t = "PreviousTrackRequested" ->
           {Navigated(n, b, Locked(<<>>)) :
              n \in advance_to_prev(s, m, s.selected_index, Len(s.songs),
                                    s.repeat = "All")}
      [] e.t = "VolumeChangeRequested" ->
           {Outcome(s, m, b,
                    <<Ev("VolumeChanged", volume_percent_to_amplitude(e.a)),
                      EvMsg("ShowMessage", "Volume set to", e.a)>>,
                    <<>>, <<"send", "send">>)}
      [] e.t = "PathChangeRequested" -> path_change(s, m, b, e.a)
      [] e.t = "SearchToggled" ->
           {Outcome(s, m, b,
                    IF ~BoolOf(e.a)
                    THEN <<EvMsg("ShowMessage", "Search cleared", 0)>>
                    ELSE <<>>,
                    <<>>,
                    IF ~BoolOf(e.a) THEN <<"send">> ELSE <<>>)}
      [] e.t = "SearchQueryChanged" ->
           {Outcome(s, m, b, <<Ev("SearchRequested", e.a)>>, <<>>,
                    <<"send">>)}
      [] e.t = "ShuffleToggled" -> apply_shuffle(s, m, b, ~BoolOf(e.a))
      [] e.t = "ShuffleSet" -> apply_shuffle(s, m, b, BoolOf(e.a))
      [] e.t = "RepeatChangeRequested" ->
           {Outcome(s, m, b, <<Ev("RepeatChanged", e.a)>>, <<>>, <<"send">>)}
      [] e.t = "QuitRequested" ->
           {Outcome(s, m, b, <<Ev("Shutdown", 0)>>, <<>>, <<"send">>)}
      [] OTHER -> {Outcome(s, m, b, <<>>, <<>>, <<>>)}

\* ------------------------------------------------------------------------
\* State of the model
\* ------------------------------------------------------------------------
VARIABLES
    pc,          \* position of the worker in Application::init / run
    running,     \* Application::running
    state,       \* the AppState behind the mutex
    queue,       \* the bounded event channel, oldest event first
    sm,          \* Application::shuffle_manager
    backend,     \* the playback backend
    disk,        \* the snapshot last written by StorageBackend::save
    ui_shuffle,  \* the renderer's copy of config.shuffle (update_state)
    ui_search,   \* the renderer's copy of ui.search_active (update_state)
    cur,         \* the event taken by the last try_recv
    handler,     \* the handler handle_event routed cur to ("" until routed)
    emitted,     \* the events sent while cur was handled
    saves,       \* the snapshots saved while cur was handled
    nav,         \* the NavTarget resolved while cur was handled ("" if none)
    steps,       \* what the worker's last step did to the shared resources
    reduced,     \* the AppState as apply_event(cur) left it
    inPass,      \* cur was sent during the process_events call that took it
    pending,     \* events still queued that were sent before this call began
    inputs,      \* events that entered from outside the worker so far
    op,          \* exercise of one component: the last operation called
    pre,         \* exercise of one component: its receiver before that call
    ret,         \* exercise of one component: what the call returned
    visited,     \* ShuffleManager exercise: indices handed out since initialize
    draining     \* ShuffleManager exercise: "yes", "done" or "no"

appVars ==
    <<pc, running, state, queue, backend, disk, ui_shuffle, ui_search, cur, handler,
      emitted, saves, nav, steps, reduced, inPass, pending, inputs>>
exerciseVars == <<op, pre, ret, visited, draining>>
vars == <<appVars, sm, exerciseVars>>

NoOp == [name |-> "", size |-> 0, current |-> None, loop |-> FALSE]

Init ==
    /\ pc = "new"
    /\ running = FALSE
    /\ state = DefaultState
    /\ queue = <<>>
    /\ sm = NewManager
    /\ backend = NewBackend
    /\ disk = NoDisk
    /\ ui_shuffle = FALSE
    /\ ui_search = FALSE
    /\ cur = NoEvent
    /\ handler = ""
    /\ emitted = <<>>
    /\ saves = <<>>
    /\ nav = ""
    /\ steps = <<>>
    /\ reduced = DefaultState
    /\ inPass = FALSE
    /\ pending = 0
    /\ inputs = 0
    /\ op = NoOp
    /\ pre = NewManager
    /\ ret = None
    /\ visited = <<>>
    /\ draining = "no"

\* ------------------------------------------------------------------------
\* The application: init, run, process_events, handle_event
\* ------------------------------------------------------------------------
\* the libraries storage may hold
StoredLibraries == {[k \in 1..n |-> k] : n \in 0..LibSize}

\* what StorageBackend::load returns: persisted fields as saved, the rest at
\* their defaults
Loaded(shuffle, repeat, songs) ==
    [DefaultState EXCEPT !.shuffle = shuffle, !.repeat = repeat,
                         !.songs = songs, !.status_message = Msg("", 0)]

\* Application::init with all three backends, then the entry of run()
AppInit ==
    /\ pc = "new"
    /\ \E shuffle \in BOOLEAN, mode \in Range(RepeatModes),
          songs \in StoredLibraries :
         /\ state' = Loaded(shuffle, mode, songs)
         /\ disk' = Persisted(Loaded(shuffle, mode, songs))
         /\ \E m \in (IF shuffle /\ Len(songs) > 0
                      THEN initialize(set_enabled(sm, shuffle), Len(songs),
                                      None)
                      ELSE {set_enabled(sm, shuffle)}) : sm' = m
         /\ queue' = <<EvList("LibraryLoaded", songs)>>
         /\ ui_shuffle' = FALSE
         /\ ui_search' = FALSE
    /\ running' = TRUE
    /\ pending' = 1
    /\ steps' = Locked(<<>>) \o <<"backend">> \o Locked(<<>>) \o <<"send">>
    /\ pc' = "drain"
    /\ UNCHANGED <<backend, cur, handler, emitted, saves, nav, reduced, inPass,
                   inputs, exerciseVars>>

\* Mutation of process_events_done: the call stops after the events that
\* were queued when it began.
process_events_done_snapshot(q, before) == before = 0

\* process_events: try_recv finds the channel empty
process_events_done(q, before) == Len(q) = 0

\* Receiver::try_recv on a non-empty channel
try_recv(q) == [event |-> Head(q), rest |-> Tail(q)]

\* Mutation of ChannelCapacity: a channel of two slots.
ChannelCapacity_two == 2

\* Application::new: bounded(100)
ChannelCapacity == 100

\* Sender::send returns only once the channel has a free slot: the events fit
has_room(q, events) == Len(q) + Len(events) <= ChannelCapacity

\* Mutation of send: the events jump the queue.
send_front(q, events) == events \o q

\* Sender::send of the events of one handler, in order
send(q, events) == q \o events

\* process_events -> handle_event, first half: try_recv and apply_event
Reduce ==
    /\ pc = "drain"
    /\ ~process_events_done(queue, pending)
    /\ Len(queue) > 0
    /\ LET r == try_recv(queue)
       IN  /\ cur' = r.event
           /\ queue' = r.rest
           /\ state' = apply_event(state, r.event)
           /\ reduced' = apply_event(state, r.event)
    /\ inPass' = (pending = 0)
    /\ pending' = IF pending > 0 THEN pending - 1 ELSE 0
    /\ handler' = ""
    /\ emitted' = <<>>
    /\ saves' = <<>>
    /\ nav' = ""
    /\ steps' = Locked(<<>>)
    /\ pc' = "dispatch"
    /\ UNCHANGED <<running, sm, backend, disk, ui_shuffle, ui_search, inputs,
                   exerciseVars>>

\* the effect of one handler outcome
Apply(o, name) ==
    /\ has_room(queue, o.emit)
    /\ state' = o.state
    /\ sm' = o.sm
    /\ backend' = o.backend
    /\ queue' = send(queue, o.emit)
    /\ emitted' = o.emit
    /\ saves' = o.saves
    /\ disk' = IF Len(o.saves) > 0 THEN o.saves[Len(o.saves)] ELSE disk
    /\ nav' = o.nav
    /\ steps' = o.steps
    /\ handler' = name
    /\ pc' = IF o.err THEN "failed" ELSE "drain"
    /\ UNCHANGED <<running, ui_shuffle, ui_search, cur, reduced, inPass, pending, inputs,
                   exerciseVars>>

\* handle_event, second half: AppEvent::Playback
HandlePlaybackEvent ==
    /\ pc = "dispatch"
    /\ Family(cur) = "Playback"
    /\ \E o \in PlaybackHandler(cur, state, sm, backend) :
         Apply(o, "PlaybackHandler")

\* handle_event, second half: AppEvent::Library
HandleLibraryEvent ==
    /\ pc = "dispatch"
    /\ Family(cur) = "Library"
    /\ \E o \in LibraryHandler(cur, state, sm, backend) :
         Apply(o, "LibraryHandler")

\* handle_event, second half: AppEvent::Ui
HandleUiEvent ==
    /\ pc = "dispatch"
    /\ Family(cur) = "Ui"
    /\ \E o \in UiHandler(cur, state, sm, backend) : Apply(o, "UiHandler")

\* handle_event, second half: AppEvent::Shutdown
HandleShutdown ==
    /\ pc = "dispatch"
    /\ Family(cur) = "Shutdown"
    /\ running' = FALSE
    /\ handler' = "none"
    /\ steps' = <<>>
    /\ pc' = "drain"
    /\ UNCHANGED <<state, queue, sm, backend, disk, ui_shuffle, ui_search, cur, emitted,
                   saves, nav, reduced, inPass, pending, inputs, exerciseVars>>

\* process_events returns: the channel is empty
DrainDone ==
    /\ pc = "drain"
    /\ process_events_done(queue, pending)
    /\ pc' = "poll"
    /\ UNCHANGED <<running, state, queue, sm, backend, disk, ui_shuffle, ui_search, cur,
                   handler, emitted, saves, nav, steps, reduced, inPass,
                   pending, inputs, exerciseVars>>

\* volumes the settings screen can ask for
Percents == {50}
\* search queries: 0 is the empty query
Queries == {0, 1}
\* paths: 1 is an existing directory, 2 is not
Paths == {1, 2}

\* the events UiRenderer::poll_input can return for one key
UiInputs ==
    {Ev(t, 0) : t \in {"PlaySelectedRequested", "TogglePauseRequested",
                       "NextTrackRequested", "PreviousTrackRequested",
                       "QuitRequested"}}
    \cup {Ev("SelectionChanged", i) : i \in 0..(Len(state.songs) - 1)}
    \cup {Ev("VolumeChangeRequested", p) : p \in Percents}
    \cup {Ev("PathChangeRequested", p) : p \in Paths}
    \cup {Ev("SearchToggled", f) : f \in {0, 1}}
    \cup {Ev("SearchQueryChanged", q) : q \in Queries}
    \cup {Ev("ShuffleToggled", FlagOf(ui_shuffle))}
    \cup {Ev("ShuffleSet", f) : f \in {0, 1}}
    \cup {Ev("RepeatChangeRequested", k) : k \in 1..Len(RepeatModes)}

\* run(): ui.poll_input() and the sends of what it returned, for a renderer
\* whose keys produce the given events
PollFrom(events) ==
    /\ pc = "poll"
    /\ \/ /\ inputs < MaxInputs
          /\ has_room(queue, <<NoEvent>>)
          /\ \E e \in events : queue' = send(queue, <<e>>)
          /\ inputs' = inputs + 1
          /\ steps' = <<"send">>
       \/ /\ UNCHANGED <<queue, inputs>>
          /\ steps' = <<>>
    /\ pc' = "tail"
    /\ UNCHANGED <<running, state, sm, backend, disk, ui_shuffle, ui_search, cur, handler,
                   emitted, saves, nav, reduced, inPass, pending,
                   exerciseVars>>

\* run(): ui.poll_input() with every key of the renderer
PollInput == PollFrom(UiInputs)

\* the library a scan of the music directory reports
ScannedLibrary == [k \in 1..LibSize |-> k]

\* a module holding Application::event_sender() (the library scanner) sends
\* LibraryEvent::ScanCompleted while the loop runs
ScanCompletes ==
    /\ pc = "poll"
    /\ inputs < MaxInputs
    /\ has_room(queue, <<NoEvent>>)
    /\ queue' = send(queue, <<[EvList("ScanCompleted", ScannedLibrary)
                                EXCEPT !.a = Len(ScannedLibrary)]>>)
    /\ inputs' = inputs + 1
    /\ UNCHANGED <<pc, running, state, sm, backend, disk, ui_shuffle, ui_search, cur,
                   handler, emitted, saves, nav, steps, reduced, inPass,
                   pending, exerciseVars>>

\* run(): what the rest of one iteration does to the shared resources: the
\* elapsed-time update, the has_finished check and the render under the guard
tail_steps(b) ==
    <<"backend">>
    \o (IF is_playing(b)
        THEN <<"backend">> \o
             (IF ~b.is_paused THEN <<"backend">> \o Locked(<<>>) ELSE <<>>)
        ELSE <<>>)
    \o <<"backend">>
    \o (IF has_finished(b) THEN <<"send">> ELSE <<>>)
    \o Locked(<<"render">>)

\* Mutation of loop_test: the loop does not look at `running`.
loop_test_ignored(r) == "drain"

\* run(): `while *self.running.lock().unwrap()`, where the worker goes next
loop_test(r) == IF r THEN "drain" ELSE "stopped"

\* run(): the has_finished check, update_state/render, and the loop test
LoopTail ==
    /\ pc = "tail"
    /\ has_finished(backend) => has_room(queue, <<NoEvent>>)
    /\ queue' = IF has_finished(backend)
                THEN send(queue, <<Ev("TrackFinished", 0)>>) ELSE queue
    /\ ui_shuffle' = state.shuffle
    /\ ui_search' = state.search_active
    /\ pending' = Len(queue')
    /\ steps' = tail_steps(backend)
    /\ pc' = loop_test(running)
    /\ UNCHANGED <<running, state, sm, backend, disk, cur, handler, emitted,
                   saves, nav, reduced, inPass, inputs, exerciseVars>>

\* the audio thread: the sink plays its source to the end
TrackEnds ==
    /\ pc \notin {"new", "stopped", "failed"}
    /\ is_playing(backend)
    /\ ~backend.is_paused
    /\ backend' = [backend EXCEPT !.sink_empty = TRUE]
    /\ UNCHANGED <<pc, running, state, queue, sm, disk, ui_shuffle, ui_search, cur,
                   handler, emitted, saves, nav, steps, reduced, inPass,
                   pending, inputs, exerciseVars>>

Next ==
    \/ AppInit
    \/ Reduce
    \/ HandlePlaybackEvent
    \/ HandleLibraryEvent
    \/ HandleUiEvent
    \/ HandleShutdown
    \/ DrainDone
    \/ PollInput
    \/ ScanCompletes
    \/ LoopTail
    \/ TrackEnds

Spec == Init /\ [][Next]_vars

\* ------------------------------------------------------------------------
\* The ShuffleManager on its own: any caller, any sequence of operations
\* ------------------------------------------------------------------------
Sizes == 0..MaxSize
Currents == {None} \cup (0..(MaxSize - 1))

Called(name, size, current, loop) ==
    /\ op' = [name |-> name, size |-> size, current |-> current, loop |-> loop]
    /\ pre' = sm

\* the drain that began at the last initialize(n, None) is over
DrainBroken ==
    /\ visited' = <<>>
    /\ draining' = "no"

Op_set_enabled ==
    /\ \E enabled \in BOOLEAN :
         /\ sm' = set_enabled(sm, enabled)
         /\ Called("set_enabled", FlagOf(enabled), None, FALSE)
    /\ ret' = None
    /\ DrainBroken
    /\ UNCHANGED appVars

Op_toggle ==
    /\ sm' = toggle(sm)
    /\ Called("toggle", 0, None, FALSE)
    /\ ret' = FlagOf(sm'.enabled)
    /\ DrainBroken
    /\ UNCHANGED appVars

Op_initialize ==
    /\ \E size \in Sizes, current \in Currents :
         /\ \E m \in initialize(sm, size, current) : sm' = m
         /\ Called("initialize", size, current, FALSE)
         /\ IF sm.enabled /\ size >= 1 /\ current = None
            THEN /\ visited' = <<Get(sm'.shuffle_queue, sm'.queue_position)>>
                 /\ draining' = "yes"
            ELSE DrainBroken
    /\ ret' = None
    /\ UNCHANGED appVars

Op_next_index ==
    /\ \E current \in Currents, loop \in BOOLEAN :
         /\ \E o \in next_index(sm, current, loop) :
              /\ sm' = o.m
              /\ ret' = o.ret
         /\ Called("next_index", 0, current, loop)
         /\ IF draining = "yes" /\ ~loop
            THEN IF ret' /= None
                 THEN /\ visited' = Append(visited, ret')
                      /\ draining' = "yes"
                 ELSE /\ visited' = visited
                      /\ draining' = "done"
            ELSE DrainBroken
    /\ UNCHANGED appVars

Op_previous_index ==
    /\ \E current \in Currents :
         /\ sm' = previous_index(sm, current).m
         /\ ret' = previous_index(sm, current).ret
         /\ Called("previous_index", 0, current, FALSE)
    /\ DrainBroken
    /\ UNCHANGED appVars

Op_update_playlist_size ==
    /\ \E size \in Sizes :
         /\ \E m \in update_playlist_size(sm, size) : sm' = m
         /\ Called("update_playlist_size", size, None, FALSE)
    /\ ret' = None
    /\ DrainBroken
    /\ UNCHANGED appVars

NextShuffle ==
    \/ Op_set_enabled
    \/ Op_toggle
    \/ Op_initialize
    \/ Op_next_index
    \/ Op_previous_index
    \/ Op_update_playlist_size

SpecShuffle == Init /\ [][NextShuffle]_vars

\* ------------------------------------------------------------------------
\* AppState::apply_event on its own: any AppState, any event
\* ------------------------------------------------------------------------
\* Option<usize> over the largest library
Indices == {None} \cup (0..(LibSize - 1))

\* the AppStates apply_event is exercised on
States ==
    {[DefaultState EXCEPT !.shuffle = sh, !.songs = l, !.current_song = c,
                          !.is_playing = p, !.is_paused = q,
                          !.current_index = ci, !.selected_index = si,
                          !.error_message = er, !.search_active = a,
                          !.search_query = sq, !.search_results = sr] :
       sh \in BOOLEAN, l \in StoredLibraries, c \in {NoSong, 1},
       p \in BOOLEAN, q \in BOOLEAN, ci \in Indices, si \in Indices,
       er \in {Msg("", 0), Msg("old error", 0)}, a \in BOOLEAN,
       sq \in Queries, sr \in {<<>>, <<0>>}}

\* the events of core/events.rs, over the payloads of the model
AllEvents ==
    {Ev(t, k) : t \in {"PlayRequested", "Started"}, k \in 1..LibSize}
    \cup {Ev(t, 0) : t \in {"Paused", "Resumed", "TrackFinished", "Stopped",
                            "PlaySelectedRequested", "TogglePauseRequested",
                            "NextTrackRequested", "PreviousTrackRequested",
                            "QuitRequested", "Shutdown"}}
    \cup {EvMsg(t, "text", 0) : t \in {"Error", "ShowMessage", "ShowError"}}
    \cup {Ev(t, volume_percent_to_amplitude(k)) :
            t \in {"VolumeChanged"}, k \in Percents}
    \cup {Ev("VolumeChangeRequested", k) : k \in Percents}
    \cup {Ev(t, f) : t \in {"Shuffle", "ShuffleToggled", "ShuffleSet",
                            "SearchToggled"}, f \in {0, 1}}
    \cup {Ev(t, k) : t \in {"RepeatChanged", "RepeatChangeRequested"},
                     k \in 1..Len(RepeatModes)}
    \cup {Ev(t, k) : t \in {"ScanRequested", "ScanStarted",
                            "PathChangeRequested"}, k \in Paths}
    \cup {Ev("ScanProgress", k) : k \in 1..LibSize}
    \cup {[EvList(t, l) EXCEPT !.a = Len(l)] :
            t \in {"ScanCompleted"}, l \in StoredLibraries}
    \cup {EvList("LibraryLoaded", l) : l \in StoredLibraries}
    \cup {Ev(t, k) : t \in {"SearchRequested", "SearchQueryChanged"},
                     k \in Queries}
    \cup {EvList("SearchResults", r) :
            r \in {<<>>} \cup {<<i>> : i \in 0..(LibSize - 1)}}
    \cup {Ev("SelectionChanged", i) : i \in 0..(LibSize - 1)}

InitReducer ==
    /\ pc = "new"
    /\ running = FALSE
    /\ state \in States
    /\ queue = <<>>
    /\ sm = NewManager
    /\ backend = NewBackend
    /\ disk = NoDisk
    /\ ui_shuffle = FALSE
    /\ ui_search = FALSE
    /\ cur = NoEvent
    /\ handler = ""
    /\ emitted = <<>>
    /\ saves = <<>>
    /\ nav = ""
    /\ steps = <<>>
    /\ reduced = DefaultState
    /\ inPass = FALSE
    /\ pending = 0
    /\ inputs = 0
    /\ op = NoOp
    /\ pre = DefaultState
    /\ ret = None
    /\ visited = <<>>
    /\ draining = "no"

\* state.apply_event(&event), called once on the drawn AppState
Op_apply_event ==
    /\ op = NoOp
    /\ \E e \in AllEvents :
         /\ cur' = e
         /\ state' = apply_event(state, e)
         /\ reduced' = apply_event(state, e)
    /\ op' = [NoOp EXCEPT !.name = "apply_event"]
    /\ pre' = state
    /\ UNCHANGED <<pc, running, queue, sm, backend, disk, ui_shuffle, ui_search, handler,
                   emitted, saves, nav, steps, inPass, pending, inputs, ret,
                   visited, draining>>

NextReducer == Op_apply_event

SpecReducer == InitReducer /\ [][NextReducer]_vars

\* ------------------------------------------------------------------------
\* SearchEngine on its own: any library, any query, any answer of the matcher
\* ------------------------------------------------------------------------
InitSearch ==
    /\ pc = "new"
    /\ running = FALSE
    /\ \E l \in StoredLibraries : state = [DefaultState EXCEPT !.songs = l]
    /\ queue = <<>>
    /\ sm = NewManager
    /\ backend = NewBackend
    /\ disk = NoDisk
    /\ ui_shuffle = FALSE
    /\ ui_search = FALSE
    /\ \E q \in Queries : cur = Ev("SearchRequested", q)
    /\ handler = ""
    /\ emitted = <<>>
    /\ saves = <<>>
    /\ nav = ""
    /\ steps = <<>>
    /\ reduced = DefaultState
    /\ inPass = FALSE
    /\ pending = 0
    /\ inputs = 0
    /\ op = NoOp
    /\ pre \in ScoreTables(Len(state.songs))
    /\ ret = None
    /\ visited = <<>>
    /\ draining = "no"

\* search_engine.search(&state.library.songs, query), the matcher scoring
\* the songs as the table pre says
Op_search ==
    /\ op = NoOp
    /\ ret' = search(state.songs, cur.a, pre)
    /\ op' = [NoOp EXCEPT !.name = "search"]
    /\ UNCHANGED <<appVars, sm, pre, visited, draining>>

NextSearch == Op_search

SpecSearch == InitSearch /\ [][NextSearch]_vars

\* ------------------------------------------------------------------------
\* JsonStorageBackend on its own: any AppState saved, then loaded
\* ------------------------------------------------------------------------
\* amplitudes a saved state may hold
Volumes == {FullVolume} \cup {volume_percent_to_amplitude(k) : k \in Percents}

\* the search part of UiState: (search_active, search_query, search_results)
SearchStates == {<<FALSE, 0, <<>>>>, <<TRUE, 1, <<0>>>>}

\* the AppStates handed to save
SavedStates ==
    {[root_path |-> rp, volume |-> v, shuffle |-> sh, repeat |-> r,
      songs |-> l, is_scanning |-> sc,
      current_song |-> c, is_playing |-> p, is_paused |-> q,
      pb_volume |-> pv, current_index |-> ci, current_elapsed |-> el,
      selected_index |-> si, status_message |-> st, error_message |-> er,
      search_active |-> se[1], search_query |-> se[2],
      search_results |-> se[3]] :
       rp \in {0, 1}, v \in Volumes, sh \in BOOLEAN,
       r \in Range(RepeatModes), l \in StoredLibraries, sc \in BOOLEAN,
       c \in {NoSong, 1}, p \in BOOLEAN, q \in BOOLEAN, pv \in Volumes,
       ci \in {None, 0}, el \in {0, 1}, si \in {None, 1},
       st \in {Msg("Welcome", 0), Msg("Paused", 0)},
       er \in {Msg("", 0), Msg("old error", 0)}, se \in SearchStates}

InitStorage ==
    /\ pc = "new"
    /\ running = FALSE
    /\ state \in SavedStates
    /\ queue = <<>>
    /\ sm = NewManager
    /\ backend = NewBackend
    /\ disk = NoDisk
    /\ ui_shuffle = FALSE
    /\ ui_search = FALSE
    /\ cur = NoEvent
    /\ handler = ""
    /\ emitted = <<>>
    /\ saves = <<>>
    /\ nav = ""
    /\ steps = <<>>
    /\ reduced = DefaultState
    /\ inPass = FALSE
    /\ pending = 0
    /\ inputs = 0
    /\ op = NoOp
    /\ pre = DefaultState
    /\ ret = None
    /\ visited = <<>>
    /\ draining = "no"

\* storage.save(&state)
Op_save ==
    /\ op = NoOp
    /\ disk' = Persisted(state)
    /\ saves' = <<Persisted(state)>>
    /\ op' = [NoOp EXCEPT !.name = "save"]
    /\ pre' = state
    /\ UNCHANGED <<pc, running, state, queue, sm, backend, ui_shuffle, ui_search, cur,
                   handler, emitted, nav, steps, reduced, inPass, pending,
                   inputs, ret, visited, draining>>

\* storage.load() of the file save wrote
Op_load ==
    /\ op.name = "save"
    /\ state' = load(disk)
    /\ op' = [NoOp EXCEPT !.name = "load"]
    /\ UNCHANGED <<pc, running, queue, sm, backend, disk, ui_shuffle, ui_search, cur,
                   handler, emitted, saves, nav, steps, reduced, inPass,
                   pending, inputs, pre, ret, visited, draining>>

NextStorage ==
    \/ Op_save
    \/ Op_load

SpecStorage == InitStorage /\ [][NextStorage]_vars

\* ------------------------------------------------------------------------
\* Properties
\* ------------------------------------------------------------------------
\* the last call was next_index(_, true) at the end of a pass of an enabled
\* manager with more than one song: it regenerated the queue
ReshuffledAtPassEnd ==
    /\ op.name = "next_index"
    /\ op.loop
    /\ pre.enabled
    /\ pre.playlist_size > 1
    /\ Len(pre.shuffle_queue) > 0
    /\ pre.queue_position + 1 >= Len(pre.shuffle_queue)

\* C5: when next_index(_, true) regenerates the queue of an enabled manager
\* with n > 1 at the end of a pass, the index it returns (the first of the new
\* pass) differs from the last index of the previous pass.
C5_NoRepeatAcrossPasses ==
    ReshuffledAtPassEnd =>
        /\ ret /= None
        /\ ret = sm.shuffle_queue[1]
        /\ ret /= LastOf(pre.shuffle_queue)

C5_Witness ==
    /\ ReshuffledAtPassEnd
    /\ sm.queue_position = 0
    /\ sm.shuffle_queue /= pre.shuffle_queue

\* C6: after initialize(n, None) on an enabled manager, n >= 1, the queue is
\* a permutation of 0..n-1; the index at position 0 followed by the results of
\* next_index(_, false) are pairwise different indices below n, and
\* next_index(_, false) returns None exactly when all n have been handed out.
C6_DrainVisitsEachOnce ==
    draining /= "no" =>
        /\ IsPermutation(sm.shuffle_queue, sm.playlist_size)
        /\ NoDup(visited)
        /\ Range(visited) \subseteq 0..(sm.playlist_size - 1)
        /\ draining = "done" => Len(visited) = sm.playlist_size

C6_Witness ==
    /\ draining = "done"
    /\ sm.playlist_size > 1
    /\ Range(visited) = 0..(sm.playlist_size - 1)

\* C7: whenever the manager is enabled and shuffle_queue is non-empty,
\* shuffle_queue is a permutation of 0..playlist_size-1 (each index exactly
\* once and nothing else).
C7_QueueIsPermutation ==
    (sm.enabled /\ Len(sm.shuffle_queue) > 0) =>
        IsPermutation(sm.shuffle_queue, sm.playlist_size)

\* the handler of cur has just returned (and no later event was taken yet)
Handled(t) == handler /= "" /\ cur.t = t

\* the PlayRequested events among the events cur's handler sent
PlayRequests == SelectSeq(emitted, LAMBDA e : e.t = "PlayRequested")

\* shuffle is off, in the manager and in the configuration
ShuffleOff == ~sm.enabled /\ ~state.shuffle
\* shuffle is on, in the manager and in the configuration
ShuffleOn == sm.enabled /\ state.shuffle

\* TrackFinished was handled with the last library index as current_index,
\* shuffle off and repeat Off
FinishedAtEnd ==
    /\ Handled("TrackFinished")
    /\ ShuffleOff
    /\ state.repeat = "Off"
    /\ state.current_index /= None
    /\ state.current_index = Len(state.songs) - 1

\* C1: with shuffle off and repeat Off, handling TrackFinished while
\* current_index is the last library index sends no PlayRequested.
C1_StopsAtEnd == FinishedAtEnd => PlayRequests = <<>>

\* C2: under repeat One, handling TrackFinished sends exactly one
\* PlayRequested, for the song held in playback.current_song.
C2_RepeatOneReplaysCurrentSong ==
    (Handled("TrackFinished") /\ state.repeat = "One"
       /\ state.current_song /= NoSong) =>
        PlayRequests = <<Ev("PlayRequested", state.current_song)>>

\* TrackFinished was handled with shuffle off, repeat Off or All and
\* current_index inside the library
FinishedSequential ==
    /\ Handled("TrackFinished")
    /\ ShuffleOff
    /\ state.repeat \in {"Off", "All"}
    /\ state.current_index /= None
    /\ state.current_index < Len(state.songs)

\* C3: with shuffle off, handling TrackFinished at current_index = i < n
\* sends exactly one PlayRequested: for songs[i+1] when i+1 < n (repeat Off
\* and All), for songs[0] when i = n-1 under repeat All.
C3_SequentialAdvance ==
    FinishedSequential =>
        LET i == state.current_index
            n == Len(state.songs)
        IN  /\ i + 1 < n =>
                 /\ emitted = <<Ev("PlayRequested", SongAt(state.songs, i + 1))>>
                 /\ state.selected_index = i + 1
            /\ (i = n - 1 /\ state.repeat = "All") =>
                 /\ emitted = <<Ev("PlayRequested", SongAt(state.songs, 0))>>
                 /\ state.selected_index = 0

C3_Witness ==
    /\ FinishedSequential
    /\ Len(state.songs) > 1
    /\ state.current_index = Len(state.songs) - 1
    /\ state.repeat = "All"
    /\ emitted = <<Ev("PlayRequested", state.songs[1])>>

\* C4: with shuffle on, more than one song and repeat Off or All, the
\* PlayRequested sent by handling TrackFinished never targets the index that
\* just finished (playback.current_index).
C4_ShuffleNeverReplays ==
    (Handled("TrackFinished") /\ ShuffleOn /\ Len(state.songs) > 1
       /\ state.repeat \in {"Off", "All"} /\ state.current_index /= None
       /\ PlayRequests /= <<>>) =>
        /\ state.selected_index /= state.current_index
        /\ PlayRequests[1].a /= SongAt(state.songs, state.current_index)

Appended(q, q2) ==
    /\ Len(q2) >= Len(q)
    /\ SubSeq(q2, 1, Len(q)) = q

DomainHandlers == {"PlaybackHandler", "LibraryHandler", "UiHandler"}

\* the handler of an event's family; Shutdown has none
HandlerOf(e) ==
    IF Family(e) = "Shutdown" THEN "none" ELSE Family(e) \o "Handler"

\* one event is taken from the head of the channel and reduced once
TakesOldest ==
    (pc = "drain" /\ pc' = "dispatch") =>
        /\ Len(queue) > 0
        /\ cur' = Head(queue)
        /\ queue' = Tail(queue)
        /\ state' = apply_event(state, Head(queue))

\* while an event is in hand, either nothing of the application moves or the
\* handler named by routes(cur) runs once, appending what it sends (and
\* process_events goes on, or returns the handler's error)
DispatchesOnce(routes(_)) ==
    pc = "dispatch" =>
        /\ cur' = cur
        /\ \/ (pc' = "dispatch" /\ queue' = queue /\ state' = state
                /\ handler' = handler)
           \/ (pc' \in {"drain", "failed"} /\ handler = ""
                /\ handler' = routes(cur) /\ queue' = queue \o emitted')

\* C9 as stated: events are taken in the order sent, one at a time; each is
\* reduced once, then exactly one domain handler, chosen by its family, runs
\* once, and what that handler sends goes behind everything already queued.
C9_OneHandlerPerEvent ==
    [][/\ TakesOldest
       /\ DispatchesOnce(HandlerOf)
       /\ pc = "dispatch" => HandlerOf(cur) \in DomainHandlers]_vars

\* C9 amended: as stated, except that Shutdown, which belongs to no family, is
\* reduced and then routed to no handler (it only clears `running`).
C9_FifoOneAtATime ==
    [][/\ TakesOldest
       /\ DispatchesOnce(HandlerOf)
       /\ pc = "dispatch" =>
            (HandlerOf(cur) \in DomainHandlers <=> cur.t /= "Shutdown")]_vars

C9_Witness ==
    /\ pc = "drain"
    /\ handler = "UiHandler"
    /\ Len(emitted) = 2
    /\ Len(queue) = 3
    /\ SubSeq(queue, 2, 3) = emitted

Persists(e) ==
    \/ e.t \in {"VolumeChanged", "Shuffle", "RepeatChanged", "ScanCompleted"}
    \/ (e.t = "PathChangeRequested" /\ is_dir(e.a))

\* the change e stands for is in the snapshot snap
ChangePresent(e, snap) ==
    CASE e.t = "VolumeChanged" -> snap.volume = e.a /\ snap.pb_volume = e.a
      [] e.t = "Shuffle" -> snap.shuffle = BoolOf(e.a)
      [] e.t = "RepeatChanged" -> snap.repeat = RepeatModes[e.a]
      [] e.t = "ScanCompleted" -> snap.songs = e.l
      [] e.t = "PathChangeRequested" -> snap.root_path = e.a
      [] OTHER -> TRUE

ShutdownHandled == pc /= "new" /\ ~running

\* C12: handling Shutdown does not cut the process_events call short: the
\* events queued behind it are still taken in order, reduced and routed to
\* their handler; after the call the loop test fails, so no further
\* process_events call begins; Shutdown itself is routed to no handler.
C12_ShutdownFinishesPass ==
    [][/\ (ShutdownHandled /\ pc = "drain" /\ Len(queue) > 0) =>
            \/ (pc' = "drain" /\ queue' = queue)
            \/ (pc' = "dispatch" /\ cur' = Head(queue)
                  /\ queue' = Tail(queue)
                  /\ state' = apply_event(state, Head(queue)))
       /\ (ShutdownHandled /\ pc = "dispatch") =>
            (pc' = "dispatch" \/ handler' = HandlerOf(cur))
       /\ (ShutdownHandled /\ pc = "tail") => pc' \in {"tail", "stopped"}
       /\ pc = "stopped" => pc' = "stopped"
       /\ (pc = "dispatch" /\ cur.t = "Shutdown") =>
            (pc' = "dispatch" \/ (handler' = "none" /\ ~running'))]_vars

C12_Witness ==
    /\ ShutdownHandled
    /\ pc = "drain"
    /\ handler \in DomainHandlers
    /\ cur.t = "PlayRequested"
    /\ Len(queue) > 0

\* the keys of a session that ends with `q`: play, next track, volume, search
\* and quit
QuitInputs ==
    {Ev(t, 0) : t \in {"PlaySelectedRequested", "NextTrackRequested",
                       "QuitRequested"}}
    \cup {Ev("VolumeChangeRequested", p) : p \in Percents}
    \cup {Ev("SearchQueryChanged", 1)}

\* run(): ui.poll_input() in such a session
PollInputLive == PollFrom(QuitInputs)

\* the steps of the worker thread (everything but the audio thread)
Worker ==
    \/ AppInit
    \/ Reduce
    \/ HandlePlaybackEvent
    \/ HandleLibraryEvent
    \/ HandleUiEvent
    \/ HandleShutdown
    \/ DrainDone
    \/ PollInputLive
    \/ LoopTail

NextLive ==
    \/ Worker
    \/ TrackEnds

\* the worker thread keeps running: no step of it waits for another thread
SpecLive == Init /\ [][NextLive]_vars /\ WF_vars(Worker)

\* ------------------------------------------------------------------------
\* A session of searching and playing at the TUI, key by key.  poll_input
\* reads one key and maps it by the renderer's own copy of ui.search_active,
\* which update_state refreshes at the end of each iteration.
\* ------------------------------------------------------------------------
\* TuiRenderer::handle_search_input: Esc, a character or Backspace, Enter
SearchKeys ==
    {Ev("SearchToggled", 0), Ev("PlaySelectedRequested", 0)}
    \cup {Ev("SearchQueryChanged", q) : q \in Queries}

\* TuiRenderer::handle_normal_input: '/', Enter, Up and Down
NormalKeys ==
    {Ev("PlaySelectedRequested", 0)}
    \cup {Ev("SearchToggled", 1) : k \in 1..Len(state.songs)}
    \cup {Ev("SelectionChanged", i) : i \in 0..(Len(state.songs) - 1)}

\* TuiRenderer::poll_input outside the settings screen
PollKeys == PollFrom(IF ui_search THEN SearchKeys ELSE NormalKeys)

NextKeys ==
    \/ AppInit
    \/ Reduce
    \/ HandlePlaybackEvent
    \/ HandleLibraryEvent
    \/ HandleUiEvent
    \/ DrainDone
    \/ PollKeys
    \/ LoopTail
    \/ TrackEnds

SpecKeys == Init /\ [][NextKeys]_vars

\* a QuitRequested is in the channel while run() loops
QuitQueued ==
    /\ pc \in {"drain", "dispatch", "poll", "tail"}
    /\ \E i \in 1..Len(queue) : queue[i].t = "QuitRequested"

\* run() has returned: Ok after the loop ended, or Err from a handler
Returned == pc \in {"stopped", "failed"}

\* C13: once QuitRequested is in the channel while run() loops, run()
\* eventually returns (through the loop test unless a handler returned Err):
\* handling QuitRequested sends Shutdown, and the iteration in which Shutdown
\* is handled is the last one.
C13_QuitLeadsToReturn ==
    /\ [](Handled("QuitRequested") => emitted = <<Ev("Shutdown", 0)>>)
    /\ [][(ShutdownHandled /\ pc = "tail") => pc' \in {"tail", "stopped"}]_vars
    /\ QuitQueued ~> Returned

C13_Witness ==
    /\ pc = "stopped"
    /\ ~running
    /\ \E i \in 1..Len(queue) : queue[i].t = "TrackFinished"

\* the outcomes of the handler handle_event routes e to (none for Shutdown)
Routed(e, s, m, b) ==
    CASE Family(e) = "Playback" -> PlaybackHandler(e, s, m, b)
      [] Family(e) = "Library" -> LibraryHandler(e, s, m, b)
      [] Family(e) = "Ui" -> UiHandler(e, s, m, b)
      [] OTHER -> {}

Held(tr, k) ==
    Cardinality({i \in 1..(k - 1) : tr[i] = "lock"})
    - Cardinality({i \in 1..(k - 1) : tr[i] = "unlock"})

\* tr never locks the mutex it already holds, never sends or calls the
\* playback backend while holding it, and ends with the mutex released
LockSafe(tr) ==
    /\ \A k \in 1..Len(tr) :
         /\ tr[k] = "lock" => Held(tr, k) = 0
         /\ tr[k] \in {"send", "backend"} => Held(tr, k) = 0
         /\ tr[k] = "unlock" => Held(tr, k) = 1
    /\ Held(tr, Len(tr) + 1) = 0

\* C14: on every path through init, the reducer call, the three handlers,
\* the navigation helpers and the main loop, the AppState lock is not held
\* when an event is sent or a playback-backend method is called, and it is
\* never acquired while the worker already holds it.
C14_LockNeverHeldAcrossSend ==
    /\ LockSafe(steps)
    /\ pc = "dispatch" =>
         \A o \in Routed(cur, state, sm, backend) : LockSafe(o.steps)

C14_Witness ==
    /\ Handled("TrackFinished")
    /\ nav = "Go"
    /\ steps = <<"lock", "unlock", "lock", "unlock", "send">>

\* a manual navigation request t was handled with shuffle off while the
\* selection was at index i
ManualAt(t, i) ==
    /\ Handled(t)
    /\ ShuffleOff
    /\ Len(state.songs) > 0
    /\ reduced.selected_index = i

\* the handler sent one PlayRequested, for the song at index i, and left the
\* selection there
PlaysIndex(i) ==
    /\ emitted = <<Ev("PlayRequested", SongAt(state.songs, i))>>
    /\ state.selected_index = i

\* C16: with shuffle off, NextTrackRequested at the last index plays index 0
\* and PreviousTrackRequested at index 0 plays the last index exactly when
\* the repeat mode is All; under Off and One the request re-plays the index
\* it started from.
C16_ManualWrapOnlyUnderAll ==
    LET last == Len(state.songs) - 1
    IN  /\ ManualAt("NextTrackRequested", last) =>
             PlaysIndex(IF state.repeat = "All" THEN 0 ELSE last)
        /\ ManualAt("PreviousTrackRequested", 0) =>
             PlaysIndex(IF state.repeat = "All" THEN last ELSE 0)

C16_Witness ==
    /\ ManualAt("PreviousTrackRequested", 0)
    /\ state.repeat = "All"
    /\ Len(state.songs) > 1
    /\ state.selected_index = Len(state.songs) - 1
    /\ nav = "Go"

\* C17: whenever a navigation helper resolves to Restart, the handler sends
\* exactly one PlayRequested, for the song that is playing
\* (playback.current_song), be it for TrackFinished, NextTrackRequested or
\* PreviousTrackRequested.
C17_RestartReplaysCurrentSong ==
    (handler /= "" /\ nav = "Restart") =>
        emitted = <<Ev("PlayRequested", state.current_song)>>

\* the playback part of an AppState
PlaybackPart(s) ==
    <<s.current_song, s.current_index, s.is_playing, s.is_paused>>

\* PlayRequested was handled and play failed: no Started was sent
PlayFailed == Handled("PlayRequested") /\ emitted = <<>>

\* C18: when play fails while PlayRequested is handled, no Started is sent
\* for it, the playback part of AppState stays as it was before the event,
\* the error leaves process_events (and run), and the events queued behind
\* the PlayRequested are not processed.
C18_FailedPlayStopsThePass ==
    /\ [](PlayFailed <=> pc = "failed")
    /\ [](pc = "failed" =>
            /\ handler = "PlaybackHandler"
            /\ state = reduced
            /\ PlaybackPart(apply_event(state, cur)) = PlaybackPart(state))
    /\ [][pc = "failed" =>
            (pc' = "failed" /\ queue' = queue /\ cur' = cur
              /\ state' = state)]_vars

C18_Witness ==
    /\ pc = "failed"
    /\ Len(queue) > 0
    /\ state.current_song /= NoSong
    /\ state.current_song /= cur.a

\* PathChangeRequested was handled for a path that is no directory
BadPathHandled == Handled("PathChangeRequested") /\ ~is_dir(cur.a)

\* C19: PathChangeRequested with a path that is not an existing directory
\* sends exactly one ShowError and no ShowMessage, leaves config.root_path
\* (and the rest of AppState) unchanged and saves nothing.
C19_BadPathOnlyShowsError ==
    BadPathHandled =>
        /\ Len(emitted) = 1
        /\ emitted[1].t = "ShowError"
        /\ state.root_path = reduced.root_path
        /\ state.root_path /= cur.a
        /\ state = reduced
        /\ saves = <<>>
        /\ disk.root_path /= cur.a

C19_Witness ==
    /\ BadPathHandled
    /\ emitted = <<EvMsg("ShowError", "Invalid directory path", 0)>>
    /\ state.root_path = 1
    /\ disk.root_path = 1

\* the Started events among the events cur's handler sent
StartedSent == SelectSeq(emitted, LAMBDA e : e.t = "Started")

\* C20: a PlayRequested{song} handled with a successful play is followed by
\* exactly one Started{song}, sent by that handler, with the backend holding
\* that song; no handler sends Started otherwise; and once Started{song} is
\* reduced, playback.current_song is song, is_playing is true and is_paused
\* is false.
C20_StartedFollowsPlay ==
    /\ (Handled("PlayRequested") /\ pc /= "failed") =>
         /\ emitted = <<Ev("Started", cur.a)>>
         /\ backend.current_song = cur.a
         /\ ~backend.is_paused
    /\ (handler /= "" /\ StartedSent /= <<>>) =>
         /\ cur.t = "PlayRequested"
         /\ pc /= "failed"
         /\ StartedSent = <<Ev("Started", cur.a)>>
    /\ (pc = "dispatch" /\ cur.t = "Started") =>
         /\ state.current_song = cur.a
         /\ state.is_playing
         /\ ~state.is_paused

C20_Witness ==
    /\ pc = "dispatch"
    /\ cur.t = "Started"
    /\ backend.current_song = cur.a
    /\ state.current_song = cur.a
    /\ state.is_playing
    /\ inPass

\* handle_event(e) run on the AppState s: the outcomes of apply_event followed
\* by the handler e is routed to
handle_event(e, s, m, b) == Routed(e, apply_event(s, e), m, b)

\* the AppState once the PlayRequested the last handler sent has played and
\* its Started was reduced, and the AppState with that still to come
AfterPlay(s, sent) ==
    {s} \cup {apply_event(s, Ev("Started", sent[k].a)) :
                k \in {j \in 1..Len(sent) : sent[j].t = "PlayRequested"}}

\* the manual request t was handled with the shuffle manager disabled while
\* the selection was at index i; handling the opposite request back next,
\* before or after the song started, selects index i again and sends one
\* PlayRequested, for songs[i]
ReturnsTo(t, back, i) ==
    (Handled(t) /\ ~sm.enabled /\ reduced.selected_index = i) =>
        \A s \in AfterPlay(state, emitted) :
            \A o \in handle_event(Ev(back, 0), s, sm, backend) :
                /\ o.state.selected_index = i
                /\ o.emit = <<Ev("PlayRequested", SongAt(state.songs, i))>>
                /\ o.nav = "Go"

\* C21: with shuffle off and the selection at i, i+1 < n, handling
\* NextTrackRequested and then PreviousTrackRequested leaves
\* ui.selected_index at i with the last PlayRequested sent for songs[i];
\* PreviousTrackRequested then NextTrackRequested from i > 0 returns to i
\* likewise.
C21_NextThenPreviousReturns ==
    \A i \in 0..(Len(state.songs) - 1) :
        /\ i + 1 < Len(state.songs) =>
             /\ ReturnsTo("NextTrackRequested", "PreviousTrackRequested", i)
             /\ (Handled("NextTrackRequested") /\ ~sm.enabled
                   /\ reduced.selected_index = i) =>
                  state.selected_index = i + 1
        /\ i > 0 =>
             /\ ReturnsTo("PreviousTrackRequested", "NextTrackRequested", i)
             /\ (Handled("PreviousTrackRequested") /\ ~sm.enabled
                   /\ reduced.selected_index = i) =>
                  state.selected_index = i - 1

C21_Witness ==
    /\ Handled("NextTrackRequested")
    /\ ~sm.enabled
    /\ reduced.selected_index = 1
    /\ state.selected_index = 2
    /\ Len(state.songs) = 3
    /\ emitted = <<Ev("PlayRequested", SongAt(state.songs, 2))>>
    /\ \E o \in handle_event(Ev("PreviousTrackRequested", 0), state, sm,
                             backend) :
         /\ o.state.selected_index = 1
         /\ o.emit = <<Ev("PlayRequested", SongAt(state.songs, 1))>>

\* a drain pass of the initialized application has just ended: process_events
\* found the channel empty and returned
PassEnded == pc = "poll"

\* C29: at the end of every drain pass of the initialized application the
\* shuffle manager agrees with AppState: is_enabled() equals config.shuffle
\* and playlist_size equals library.songs.len().
C29_ManagerAgreesWithState ==
    PassEnded =>
        /\ sm.enabled = state.shuffle
        /\ sm.playlist_size = Len(state.songs)

C29_Witness ==
    /\ PassEnded
    /\ Handled("Shuffle")
    /\ sm.enabled
    /\ state.shuffle
    /\ ~ui_shuffle
    /\ Len(state.songs) = LibSize
    /\ sm.playlist_size = LibSize
    /\ IsPermutation(sm.shuffle_queue, LibSize)
    /\ inputs > 1

\* the last call was update_playlist_size(new_size)
Resized == op.name = "update_playlist_size"

\* C30: update_playlist_size(n) with n different from the stored size sets
\* playlist_size to n and queue_position to 0 and, when the manager is
\* enabled, leaves a permutation of 0..n-1 as the queue (the empty queue for
\* n = 0); with n equal to the stored size it changes nothing.
C30_ResizeResetsPosition ==
    Resized =>
        IF pre.playlist_size /= op.size
        THEN /\ sm.playlist_size = op.size
             /\ sm.queue_position = 0
             /\ pre.enabled => IsPermutation(sm.shuffle_queue, op.size)
        ELSE sm = pre

\* apply_event was called with an event of variant t
Applied(t) == op.name = "apply_event" /\ cur.t = t

\* C22: SearchToggled{active: false} sets ui.selected_index to
\* playback.current_index when that is set; otherwise leaves an existing
\* selection; otherwise selects 0 when the library is non-empty and leaves
\* the selection unset when it is empty; search_active becomes false and
\* search_query and search_results are emptied.
C22_SearchOffRestoresSelection ==
    (Applied("SearchToggled") /\ ~BoolOf(cur.a)) =>
        /\ pre.current_index /= None =>
             state.selected_index = pre.current_index
        /\ (pre.current_index = None /\ pre.selected_index /= None) =>
             state.selected_index = pre.selected_index
        /\ (pre.current_index = None /\ pre.selected_index = None) =>
             state.selected_index = (IF Len(pre.songs) > 0 THEN 0 ELSE None)
        /\ ~state.search_active
        /\ state.search_query = 0
        /\ state.search_results = <<>>

C22_Witness ==
    /\ Applied("SearchToggled")
    /\ ~BoolOf(cur.a)
    /\ pre.current_index = 2
    /\ pre.selected_index = 0
    /\ pre.search_active
    /\ pre.search_query /= 0
    /\ pre.search_results /= <<>>
    /\ state.selected_index = 2

\* C23: Started{song} sets playback.current_song to song, is_playing to true
\* and is_paused to false, copies ui.selected_index as it is into
\* playback.current_index, and clears ui.error_message.
C23_StartedRecordsSelection ==
    Applied("Started") =>
        /\ state.current_song = cur.a
        /\ state.is_playing
        /\ ~state.is_paused
        /\ state.current_index = pre.selected_index
        /\ state.error_message = Msg("", 0)

C23_Witness ==
    /\ Applied("Started")
    /\ pre.selected_index = 2
    /\ pre.current_index = 0
    /\ pre.is_paused
    /\ pre.error_message /= Msg("", 0)
    /\ pre.current_song /= cur.a
    /\ state.current_index = 2

\* C24: TrackFinished sets playback.is_playing to false and leaves every
\* other field of AppState as it was, playback.current_song and
\* playback.current_index among them.
C24_TrackFinishedOnlyStopsPlaying ==
    Applied("TrackFinished") =>
        /\ ~state.is_playing
        /\ state = [pre EXCEPT !.is_playing = FALSE]
        /\ state.current_song = pre.current_song
        /\ state.current_index = pre.current_index

C24_Witness ==
    /\ Applied("TrackFinished")
    /\ pre.is_playing
    /\ pre.current_song /= NoSong
    /\ pre.current_index /= None
    /\ ~state.is_playing

\* C25: apply_event is idempotent for a repeated event: applying the event a
\* second time to the state the first application left gives that state
\* again, for every state and every event, ShowMessage among them.
C25_ReducerIdempotent ==
    op.name = "apply_event" => apply_event(state, cur) = state

C25_Witness ==
    /\ Applied("ShowMessage")
    /\ pre.error_message /= Msg("", 0)
    /\ state.status_message = Msg("text", 0)
    /\ state /= pre
    /\ apply_event(state, cur) = state

\* the events apply_event has no arm for
Unreduced ==
    {"Shutdown", "PlayRequested", "ScanRequested", "SearchRequested",
     "PlaySelectedRequested", "TogglePauseRequested", "NextTrackRequested",
     "PreviousTrackRequested", "QuitRequested", "VolumeChangeRequested",
     "PathChangeRequested", "ShuffleToggled", "ShuffleSet",
     "RepeatChangeRequested"}

\* C26: apply_event leaves the whole AppState unchanged for Shutdown,
\* PlayRequested, ScanRequested, SearchRequested and the UI intents
\* PlaySelectedRequested, TogglePauseRequested, NextTrackRequested,
\* PreviousTrackRequested, QuitRequested, VolumeChangeRequested,
\* PathChangeRequested, ShuffleToggled, ShuffleSet and RepeatChangeRequested.
C26_IntentsLeaveStateAlone ==
    (op.name = "apply_event" /\ cur.t \in Unreduced) => state = pre

C26_Witness ==
    /\ Applied("ShuffleSet")
    /\ BoolOf(cur.a)
    /\ ~pre.shuffle
    /\ pre.is_playing
    /\ pre.selected_index /= None
    /\ state = pre

\* the fields of an AppState that serde skips, UI messages included
Transient(s) ==
    [selected_index |-> s.selected_index,
     status_message |-> s.status_message,
     error_message |-> s.error_message,
     search_active |-> s.search_active, search_query |-> s.search_query,
     search_results |-> s.search_results,
     current_song |-> s.current_song, is_playing |-> s.is_playing,
     is_paused |-> s.is_paused, current_index |-> s.current_index,
     current_elapsed |-> s.current_elapsed]

\* UiState::default() and the Default values of the skipped playback fields
TransientDefaults ==
    [selected_index |-> None, status_message |-> Msg("", 0),
     error_message |-> Msg("", 0),
     search_active |-> FALSE, search_query |-> 0, search_results |-> <<>>,
     current_song |-> NoSong, is_playing |-> FALSE, is_paused |-> FALSE,
     current_index |-> None, current_elapsed |-> 0]

NonIncreasing(rs) ==
    \A k \in 1..(Len(rs) - 1) : rs[k].score >= rs[k + 1].score

\* C28: search(library, query) returns its results in non-increasing score
\* order for every library and every non-empty query, and returns an empty
\* list whenever the query is empty or the library is empty.
C28_SearchRanksByScore ==
    op.name = "search" =>
        /\ cur.a /= 0 => NonIncreasing(ret)
        /\ (cur.a = 0 \/ Len(state.songs) = 0) => ret = <<>>
        /\ cur.a /= 0 =>
             {r.index : r \in Range(ret)} =
                {k - 1 : k \in {j \in 1..Len(state.songs) : pre[j] /= None}}

C28_Witness ==
    /\ op.name = "search"
    /\ cur.a /= 0
    /\ Len(ret) = LibSize
    /\ pre[1] < pre[LibSize]
    /\ ret[1].index = LibSize - 1
    /\ ret[1].score > ret[LibSize].score

\* k calls of next_index(None, false) in a row inside one pass: the manager
\* they leave and what they returned, in order
RECURSIVE Forward(_, _)
Forward(m, k) ==
    IF k = 0 THEN [m |-> m, rets |-> <<>>]
    ELSE LET f == Forward(m, k - 1)
             o == CHOOSE x \in next_index(f.m, None, FALSE) : TRUE
         IN  [m |-> o.m, rets |-> Append(f.rets, o.ret)]

\* k calls of previous_index(None) in a row
RECURSIVE Backward(_, _)
Backward(m, k) ==
    IF k = 0 THEN [m |-> m, rets |-> <<>>]
    ELSE LET b == Backward(m, k - 1)
             o == previous_index(b.m, None)
         IN  [m |-> o.m, rets |-> Append(b.rets, o.ret)]

Reverse(q) == [k \in 1..Len(q) |-> q[Len(q) + 1 - k]]

\* the entries still ahead of the manager in its pass
Ahead(m) == Len(m.shuffle_queue) - (m.queue_position + 1)

\* C31: with shuffle enabled, previous_index never alters or regenerates
\* shuffle_queue and only moves queue_position back by one: after k
\* successful next_index calls inside one pass, k calls of previous_index
\* return the previously visited indices in reverse order, and a call at
\* queue_position 0 returns None and leaves the manager unchanged.
C31_PreviousWalksBack ==
    /\ (op.name = "previous_index" /\ pre.enabled) =>
         /\ sm.shuffle_queue = pre.shuffle_queue
         /\ pre.queue_position > 0 =>
              /\ sm = [pre EXCEPT !.queue_position = pre.queue_position - 1]
              /\ ret = Get(pre.shuffle_queue, pre.queue_position - 1)
         /\ pre.queue_position = 0 => (ret = None /\ sm = pre)
    /\ (sm.enabled /\ Ahead(sm) > 0) =>
         \A k \in 1..Ahead(sm) :
            LET f == Forward(sm, k)
                b == Backward(f.m, k)
                here == Get(sm.shuffle_queue, sm.queue_position)
            IN  /\ \A j \in 1..k : f.rets[j] /= None
                /\ b.rets = Reverse(<<here>> \o SubSeq(f.rets, 1, k - 1))
                /\ b.m = sm

C31_Witness ==
    /\ op.name = "previous_index"
    /\ pre.enabled
    /\ pre.queue_position = 2
    /\ sm.queue_position = 1
    /\ ret = Get(pre.shuffle_queue, 1)
    /\ ret /= Get(pre.shuffle_queue, 2)

\* the last call was initialize(n, Some(c)) with c < n on an enabled manager
SeededAtCurrent ==
    /\ op.name = "initialize"
    /\ pre.enabled
    /\ op.current /= None
    /\ op.current < op.size

\* C32: after initialize(n, Some(c)) on an enabled manager with c < n the
\* queue is a permutation of 0..n-1 whose first element is c and
\* queue_position is 0, so that for n > 1 the next call of next_index
\* returns an index different from c.
C32_InitializeSeedsCurrent ==
    SeededAtCurrent =>
        /\ IsPermutation(sm.shuffle_queue, op.size)
        /\ Get(sm.shuffle_queue, 0) = op.current
        /\ sm.queue_position = 0
        /\ sm.playlist_size = op.size
        /\ op.size > 1 =>
             \A current \in Currents, loop \in BOOLEAN :
                \A o \in next_index(sm, current, loop) :
                    o.ret /= None /\ o.ret /= op.current

C32_Witness ==
    /\ SeededAtCurrent
    /\ op.size = MaxSize
    /\ op.current = MaxSize - 1
    /\ pre.queue_position > 0
    /\ Get(sm.shuffle_queue, 0) = MaxSize - 1
    /\ sm.queue_position = 0

\* the events that end in a navigation helper
NavEvents == {"NextTrackRequested", "PreviousTrackRequested", "TrackFinished"}

\* the index the handler of e hands to the navigation helper
NavIndex(e, s) ==
    IF e.t = "TrackFinished" THEN s.current_index ELSE s.selected_index

\* the handler of e calls a navigation helper (TrackFinished under repeat One
\* does not)
Navigates(e, s) ==
    e.t \in NavEvents /\ ~(e.t = "TrackFinished" /\ s.repeat = "One")

\* the PlayRequested events among the events of one outcome
PlaysOf(o) == SelectSeq(o.emit, LAMBDA e : e.t = "PlayRequested")

\* C33: handling one NextTrackRequested, PreviousTrackRequested or
\* TrackFinished emits at most one PlayRequested, and when navigation
\* resolves to Nothing (shuffle disabled and no current index) the handler
\* emits no event and changes neither ui.selected_index nor any other state.
C33_NavigationPlaysAtMostOnce ==
    /\ (pc = "dispatch" /\ cur.t \in NavEvents) =>
         \A o \in Routed(cur, state, sm, backend) :
            /\ Len(PlaysOf(o)) <= 1
            /\ Len(o.emit) = Len(PlaysOf(o))
            /\ (Navigates(cur, state) /\ ~sm.enabled
                  /\ NavIndex(cur, state) = None) =>
                 /\ o.nav = "Nothing"
                 /\ o.emit = <<>>
                 /\ o.state = state
                 /\ o.sm = sm
                 /\ o.backend = backend
                 /\ o.saves = <<>>
                 /\ ~o.err
            /\ o.nav = "Nothing" => (~sm.enabled /\ NavIndex(cur, state) = None)
    /\ (\E t \in NavEvents : Handled(t)) =>
         /\ Len(PlayRequests) <= 1
         /\ nav = "Nothing" =>
              /\ emitted = <<>>
              /\ state = reduced
              /\ NavIndex(cur, state) = None

C33_Witness ==
    /\ Handled("NextTrackRequested")
    /\ nav = "Nothing"
    /\ state.selected_index = None
    /\ emitted = <<>>
    /\ inputs > 1

\* the library index of a song (every library of the model holds a song once)
IndexOfSong(songs, song) ==
    IF \E i \in 0..(Len(songs) - 1) : SongAt(songs, i) = song
    THEN CHOOSE i \in 0..(Len(songs) - 1) : SongAt(songs, i) = song
    ELSE None

\* one auto-advance run to its end: TrackFinished is reduced and handled, the
\* PlayRequested it sent is reduced and played, and Started is reduced.  The
\* set of [state, sm, backend, played], played being the library index of the
\* song started (None when none was)
AutoAdvance(s, m, b) ==
    LET finished == Ev("TrackFinished", 0)
        done(o) ==
            IF o.emit = <<>>
            THEN [state |-> o.state, sm |-> o.sm, backend |-> o.backend,
                  played |-> None]
            ELSE LET request == o.emit[1]
                     s2 == apply_event(o.state, request)
                     s3 == apply_event(s2, Ev("Started", request.a))
                 IN  [state |-> s3, sm |-> o.sm,
                      backend |-> play(o.backend, request.a),
                      played |-> IndexOfSong(s3.songs, request.a)]
    IN  {done(o) : o \in handle_event(finished, s, m,
                                      [b EXCEPT !.sink_empty = TRUE])}

\* the indices k auto-advances in a row can play, as sequences
RECURSIVE AutoAdvances(_, _, _, _)
AutoAdvances(s, m, b, k) ==
    IF k = 0 THEN {<<>>}
    ELSE UNION {{<<a.played>> \o rest :
                   rest \in AutoAdvances(a.state, a.sm, a.backend, k - 1)} :
                  a \in AutoAdvance(s, m, b)}

\* an event whose handler generates the shuffle queue of an enabled manager
\* has just been handled while a song plays, under repeat All
QueueGenerated ==
    /\ \/ Handled("ScanCompleted")
       \/ Handled("LibraryLoaded")
       \/ Handled("ShuffleSet") /\ BoolOf(cur.a)
       \/ Handled("ShuffleToggled") /\ ~BoolOf(cur.a)
    /\ sm.enabled
    /\ sm.playlist_size = Len(state.songs)
    /\ Len(state.songs) > 0
    /\ sm.queue_position = 0
    /\ state.repeat = "All"
    /\ backend.current_song /= NoSong
    /\ state.current_song = backend.current_song

\* C34: with shuffle enabled, each shuffle pass as driven through the
\* application plays every library index exactly once: the song that is
\* playing when a queue is generated, together with the songs started by the
\* following auto-advances (TrackFinished under repeat All) until the queue is
\* regenerated, has no index twice and none missing.
C34_PassPlaysEachIndexOnce ==
    QueueGenerated =>
        \A played \in AutoAdvances(state, sm, backend, Len(state.songs) - 1) :
            IsPermutation(<<IndexOfSong(state.songs, backend.current_song)>>
                          \o played,
                          Len(state.songs))

\* process_events is about to take a NextTrackRequested with a TrackFinished
\* right behind it: the key was pressed in the iteration whose has_finished
\* check saw the track end
NextAndFinishedPending ==
    /\ pc = "drain"
    /\ Len(queue) >= 2
    /\ queue[1].t = "NextTrackRequested"
    /\ queue[2].t = "TrackFinished"

\* C35: when a user NextTrackRequested and a backend TrackFinished are both
\* pending in the same drain pass, with shuffle disabled, repeat All and more
\* than two songs, the two PlayRequested events they produce do not target the
\* same library index: no song is started twice.
C35_NextAndFinishedPlayDifferentSongs ==
    (NextAndFinishedPending /\ ShuffleOff /\ state.repeat = "All"
       /\ Len(state.songs) > 2) =>
        \A o1 \in handle_event(queue[1], state, sm, backend) :
           \A o2 \in handle_event(queue[2], o1.state, o1.sm, o1.backend) :
              \A i \in 1..Len(PlaysOf(o1)), j \in 1..Len(PlaysOf(o2)) :
                 IndexOfSong(state.songs, PlaysOf(o1)[i].a)
                   /= IndexOfSong(state.songs, PlaysOf(o2)[j].a)

\* the library is still the one init loaded: a scan reports ScannedLibrary,
\* which is longer, so no ScanCompleted has replaced it since any song started
LibraryAsLoaded == Len(state.songs) < Len(ScannedLibrary)

\* C36: at the end of every drain pass, if playback.current_song and
\* playback.current_index are both set and the library has not been replaced
\* since the song started, library.songs[playback.current_index] is
\* playback.current_song.
C36_CurrentIndexPointsAtCurrentSong ==
    (PassEnded /\ LibraryAsLoaded /\ state.current_song /= NoSong
       /\ state.current_index /= None) =>
        SongAt(state.songs, state.current_index) = state.current_song

\* the TrackFinished events waiting in the channel
FinishedQueued == SelectSeq(queue, LAMBDA e : e.t = "TrackFinished")

\* this step of run() sends TrackFinished
EnqueuesTrackFinished ==
    /\ pc = "tail"
    /\ Len(queue') = Len(queue) + 1
    /\ queue'[Len(queue')].t = "TrackFinished"

\* the track in the backend has ended and no TrackFinished was reduced since
\* the Started of its play (apply_event clears is_playing on TrackFinished
\* and sets it on Started)
FinishUnreported ==
    /\ backend.current_song /= NoSong
    /\ backend.sink_empty
    /\ state.is_playing
    /\ state.current_song = backend.current_song
    /\ FinishedQueued = <<>>

ReducesSearchResults ==
    /\ pc = "drain"
    /\ pc' = "dispatch"
    /\ cur'.t = "SearchResults"

Level(t) ==
    IF t \in {"PlayRequested", "SearchRequested"} THEN 2
    ELSE IF t \in {"PlaySelectedRequested", "TogglePauseRequested",
                   "NextTrackRequested", "PreviousTrackRequested",
                   "VolumeChangeRequested", "PathChangeRequested",
                   "SearchToggled", "SearchQueryChanged", "ShuffleToggled",
                   "ShuffleSet", "RepeatChangeRequested", "QuitRequested",
                   "TrackFinished"} THEN 3
    ELSE 1

RECURSIVE Drained(_, _, _, _, _)
Drained(s, m, b, q, n) ==
    IF q = <<>> \/ n = 0
    THEN {[state |-> s, sm |-> m, backend |-> b, err |-> FALSE]}
    ELSE IF Family(Head(q)) = "Shutdown"
         THEN Drained(apply_event(s, Head(q)), m, b, Tail(q), n - 1)
         ELSE UNION {IF o.err
                     THEN {[state |-> o.state, sm |-> o.sm,
                            backend |-> o.backend, err |-> TRUE]}
                     ELSE Drained(o.state, o.sm, o.backend,
                                  send(Tail(q), o.emit), n - 1) :
                       o \in handle_event(Head(q), s, m, b)}

\* k presses of the pause key returned by one poll_input
Toggles(k) == [i \in 1..k |-> Ev("TogglePauseRequested", 0)]

\* C40: at the end of every drain pass playback.is_paused in AppState equals
\* the playback backend's is_paused(), for any sequence of
\* TogglePauseRequested, PlayRequested, navigation and TrackFinished events,
\* including several toggles queued in the same pass.
C40_PausedFlagMatchesBackend ==
    PassEnded =>
        /\ state.is_paused = backend.is_paused
        /\ \A k \in 2..MaxInputs :
              \A d \in Drained(state, sm, backend, Toggles(k), 2 * k) :
                 /\ ~d.err
                 /\ d.state.is_paused = d.backend.is_paused
                 /\ d.backend.is_paused =
                      (IF k % 2 = 0 \/ backend.current_song = NoSong
                          \/ (backend.sink_empty /\ ~backend.is_paused)
                       THEN backend.is_paused ELSE ~backend.is_paused)

\* a pass ends after the second press of the pause key: paused, then resumed
C40_Witness ==
    /\ PassEnded
    /\ Handled("Resumed")
    /\ backend.current_song /= NoSong
    /\ ~backend.is_paused
    /\ ~state.is_paused
    /\ inputs = MaxInputs

====
